---- MODULE Spec2Model ----
(***************************************************************************)
(* Playback engine of audionova: the MusicProvider of                      *)
(* src/context/MusicContext.tsx (playback controller) together with the    *)
(* HTML media element it drives, the source selector of                    *)
(* src/utils/audioSourceOptimizer.ts and the Web Audio processing chain of *)
(* src/utils/audioProcessor.ts.                                            *)
(*                                                                         *)
(* Every handler of the provider is one operator on a record of the        *)
(* provider's state; an action applies one handler and then the ref-sync   *)
(* effect that React runs after the commit.  JavaScript indices are        *)
(* 0-based and kept so; sequences are indexed at index + 1.                *)
(***************************************************************************)
EXTENDS Integers, Sequences, FiniteSets, TLC

\* ------------------------------------------------------------------ bounds
MaxLen == 2

\* The media events that may wait for dispatch when a debounce timer fires.
MaxEvents == 1

\* The candidates of a list handed to the source selector.
MaxCands == 3

\* The audio contexts created during a run.
MaxContexts == 3

\* ---------------------------------------------------------------- catalog
\* The listing the UI shows, in its order: track ids.  0 stands for "no
\* song" (currentSong === null), url 0 for the blank string.
Tracks == 1 .. 4
NoSong == 0
NoUrl == 0

\* song.id && song.name: track 2 arrives without a name.
HasIdAndName(t) == t # 2

ValidTracks == {t \in Tracks : HasIdAndName(t)}

\* The strings the selector inspects, as sequences of characters.
Kbps96 == << "9", "6", "k", "b", "p", "s" >>
Kbps160 == << "1", "6", "0", "k", "b", "p", "s" >>
Kbps256 == << "2", "5", "6", "k", "b", "p", "s" >>
Kbps320 == << "3", "2", "0", "k", "b", "p", "s" >>

\* song.downloadUrl: candidates {quality, link}.  Track 1 has two usable
\* candidates, track 3 one candidate whose link is blank, the others none.
DownloadUrl(t) ==
  CASE t = 1 -> << [quality |-> Kbps96, link |-> 11],
                   [quality |-> Kbps320, link |-> 12] >>
    [] t = 3 -> << [quality |-> Kbps160, link |-> NoUrl] >>
    [] OTHER -> << >>

\* The text of a link: 11 is "s_96.mp3", 12 is "s_320.mp3", 13 is "s.m4a",
\* 14 is "s_64.mp3", any other one "s.mp3".
UrlText(link) ==
  CASE link = 11 -> << "s", "_", "9", "6", ".", "m", "p", "3" >>
    [] link = 12 -> << "s", "_", "3", "2", "0", ".", "m", "p", "3" >>
    [] link = 13 -> << "s", ".", "m", "4", "a" >>
    [] link = 14 -> << "s", "_", "6", "4", ".", "m", "p", "3" >>
    [] OTHER -> << "s", ".", "m", "p", "3" >>

\* song.url: blank for tracks 1 and 2.
Url(t) == IF t \in {1, 2} THEN NoUrl ELSE 20 + t

\* song.language
Language(t) == IF t \in {1, 3} THEN "hindi" ELSE "english"

\* ------------------------------------------------------- source selector
\* String.prototype.includes and toLowerCase.
Includes(str, sub) ==
  \E i \in 1 .. Len(str) - Len(sub) + 1 : SubSeq(str, i, i + Len(sub) - 1) = sub

LowerChar(c) ==
  CASE c = "A" -> "a" [] c = "B" -> "b" [] c = "D" -> "d" [] c = "E" -> "e"
    [] c = "G" -> "g" [] c = "H" -> "h" [] c = "I" -> "i" [] c = "K" -> "k"
    [] c = "L" -> "l" [] c = "M" -> "m" [] c = "O" -> "o" [] c = "P" -> "p"
    [] c = "S" -> "s" [] c = "U" -> "u" [] c = "W" -> "w" [] OTHER -> c

toLowerCase(str) == [i \in 1 .. Len(str) |-> LowerChar(str[i])]

\* let estimatedBitrate: number | undefined
NoBitrate == 0

Grade(quality, bitrate) == [quality |-> quality, bitrate |-> bitrate]

\* The quality mapping of the candidate's tag, lower-cased.
DetectFromTag(qualityLower) ==
  IF Includes(qualityLower, << "3", "2", "0" >>)
     \/ qualityLower = << "h", "i", "g", "h" >>
  THEN Grade("high", 320)
  ELSE IF Includes(qualityLower, << "2", "5", "6" >>)
  THEN Grade("high", 256)
  ELSE IF Includes(qualityLower, << "1", "6", "0" >>)
          \/ qualityLower = << "m", "e", "d", "i", "u", "m" >>
  THEN Grade("medium", 160)
  ELSE IF Includes(qualityLower, << "1", "2", "8" >>)
  THEN Grade("medium", 128)
  ELSE IF Includes(qualityLower, << "9", "6" >>)
          \/ qualityLower = << "l", "o", "w" >>
  THEN Grade("low", 96)
  ELSE IF Includes(qualityLower, << "6", "4" >>)
  THEN Grade("low", 64)
  ELSE Grade("unknown", NoBitrate)

\* The url patterns tried when the tag says nothing, on the lower-cased url.
DetectFromUrl(urlLower) ==
  IF Includes(urlLower, << "_", "3", "2", "0", "." >>)
     \/ Includes(urlLower, Kbps320)
  THEN Grade("high", 320)
  ELSE IF Includes(urlLower, << "_", "2", "5", "6", "." >>)
          \/ Includes(urlLower, Kbps256)
  THEN Grade("high", 256)
  ELSE IF Includes(urlLower, << "_", "1", "6", "0", "." >>)
          \/ Includes(urlLower, Kbps160)
  THEN Grade("medium", 160)
  ELSE IF Includes(urlLower, << "_", "1", "2", "8", "." >>)
          \/ Includes(urlLower, << "1", "2", "8", "k", "b", "p", "s" >>)
  THEN Grade("medium", 128)
  ELSE IF Includes(urlLower, << "_", "9", "6", "." >>)
          \/ Includes(urlLower, Kbps96)
  THEN Grade("low", 96)
  ELSE Grade("unknown", NoBitrate)

DetectFormat(url) ==
  IF Includes(url, << ".", "m", "4", "a" >>) \/ Includes(url, << "a", "a", "c" >>)
  THEN "aac"
  ELSE IF Includes(url, << ".", "o", "p", "u", "s" >>) THEN "opus"
  ELSE IF Includes(url, << ".", "m", "p", "4" >>) THEN "mp4"
  ELSE "mp3"

\* The AudioQuality the map builds for one candidate.
FallBackOnUrl(fromTag, url) ==
  IF fromTag.quality = "unknown" THEN DetectFromUrl(toLowerCase(url))
  ELSE fromTag

Graded(url, grade, format) ==
  [url |-> url, bitrate |-> grade.bitrate, format |-> format,
   quality |-> grade.quality]

AudioQualityOf(item) ==
  Graded(item.link,
         FallBackOnUrl(DetectFromTag(toLowerCase(item.quality)),
                       UrlText(item.link)),
         DetectFormat(UrlText(item.link)))

qualityPriority(q) ==
  CASE q = "high" -> 4 [] q = "medium" -> 3 [] q = "low" -> 2 [] OTHER -> 1

\* A faulty variant: the comparator stops at the quality level.
compareLevelsOnly(a, b) ==
  qualityPriority(b.quality) - qualityPriority(a.quality)

\* The comparator of the sort: negative when a comes before b.
compare(a, b) ==
  LET priorityDiff == qualityPriority(b.quality) - qualityPriority(a.quality)
  IN IF priorityDiff # 0 THEN priorityDiff
     ELSE IF a.bitrate # NoBitrate /\ b.bitrate # NoBitrate
     THEN b.bitrate - a.bitrate
     ELSE IF a.bitrate # NoBitrate /\ b.bitrate = NoBitrate THEN 0 - 1
     ELSE IF a.bitrate = NoBitrate /\ b.bitrate # NoBitrate THEN 1
     ELSE 0

\* The candidates with a non-blank link, mapped to AudioQuality.
RECURSIVE FilterLinks(_)
FilterLinks(cands) ==
  IF cands = << >> THEN << >>
  ELSE LET c == Head(cands)
           rest == FilterLinks(Tail(cands))
       IN IF c.link # NoUrl THEN << AudioQualityOf(c) >> \o rest ELSE rest

\* Array.prototype.sort, which is stable: x goes behind the elements it
\* does not come before.
RECURSIVE Insert(_, _)
Insert(x, sorted) ==
  IF sorted = << >> THEN << x >>
  ELSE IF compare(x, Head(sorted)) < 0 THEN << x >> \o sorted
       ELSE << Head(sorted) >> \o Insert(x, Tail(sorted))

RECURSIVE Sorted(_)
Sorted(qualities) ==
  IF qualities = << >> THEN << >>
  ELSE Insert(qualities[Len(qualities)],
              Sorted(SubSeq(qualities, 1, Len(qualities) - 1)))

EmptyInfo ==
  [selectedUrl |-> NoUrl, detectedQuality |-> "unknown",
   availableQualities |-> << >>]

\* The sort is in place: the list returned as availableQualities is the
\* sorted one.
selectOptimalAudioSource(downloadUrls) ==
  LET sortedQualities == Sorted(FilterLinks(downloadUrls))
  IN IF downloadUrls = << >> \/ sortedQualities = << >>
     THEN EmptyInfo
     ELSE LET selectedAudio == sortedQualities[1]
          IN [selectedUrl |-> selectedAudio.url,
              detectedQuality |-> selectedAudio.quality,
              detectedBitrate |-> selectedAudio.bitrate,
              detectedFormat |-> selectedAudio.format,
              availableQualities |-> sortedQualities]

\* ----------------------------------------------------------------- state
VARIABLES
  currentSong, isPlaying, queue, queueIndex, activePlaylist,
  repeatMode, isShuffle, error, currentAudioInfo,
  queueRef, queueIndexRef, activePlaylistRef, playPauseTimeoutRef,
  timers, audioPaused, audioSrc, audioTime, audioError,
  playPromise, mediaEvents, microtasks, op,
  sampleDownloadUrls, result,
  processor, webAudio, awaiting,
  now, limits, calls, admitted,
  homeView, recentlyPlayed, localStorage, trending, played

vars == << currentSong, isPlaying, queue, queueIndex, activePlaylist,
           repeatMode, isShuffle, error, currentAudioInfo,
           queueRef, queueIndexRef, activePlaylistRef, playPauseTimeoutRef,
           timers, audioPaused, audioSrc, audioTime, audioError,
           playPromise, mediaEvents, microtasks, op,
           sampleDownloadUrls, result, processor, webAudio, awaiting,
           now, limits, calls, admitted,
           homeView, recentlyPlayed, localStorage, trending, played >>

\* The state of the rate limiting utilities.
resilience == << now, limits, calls, admitted >>

\* The state of HomeView and of the browser's store beside it.
home == << homeView, recentlyPlayed, localStorage, trending, played >>

NoError == "null"
Undefined == -1
NoPlaylist == [present |-> FALSE, tracks |-> << >>,
               currentIndex |-> Undefined, language |-> ""]
NoPromise == [owner |-> "none", superseded |-> "no"]
NoTimer == "none"

\* audio.currentTime, abstracted to the points the code distinguishes.
RestartThreshold == 3
TimePoints == {0, RestartThreshold, RestartThreshold + 1}
EndOfTrack == RestartThreshold + 1

\* The state as one record, so that handlers compose as the code calls them.
Cur ==
  [currentSong |-> currentSong, isPlaying |-> isPlaying, queue |-> queue,
   queueIndex |-> queueIndex, activePlaylist |-> activePlaylist,
   repeatMode |-> repeatMode, isShuffle |-> isShuffle, error |-> error,
   currentAudioInfo |-> currentAudioInfo,
   queueRef |-> queueRef, queueIndexRef |-> queueIndexRef,
   activePlaylistRef |-> activePlaylistRef,
   playPauseTimeoutRef |-> playPauseTimeoutRef, timers |-> timers,
   audioPaused |-> audioPaused, audioSrc |-> audioSrc,
   audioTime |-> audioTime, audioError |-> audioError,
   playPromise |-> playPromise, mediaEvents |-> mediaEvents,
   microtasks |-> microtasks, op |-> op]

\* useEffect(..., [queue, queueIndex, activePlaylist]): the refs follow the
\* state after every commit.
SyncRefs(s) ==
  [s EXCEPT !.queueRef = s.queue, !.queueIndexRef = s.queueIndex,
            !.activePlaylistRef = s.activePlaylist]

CommitProvider(s0) ==
  \E s \in {SyncRefs(s0)} :
  /\ currentSong' = s.currentSong
  /\ isPlaying' = s.isPlaying
  /\ queue' = s.queue
  /\ queueIndex' = s.queueIndex
  /\ activePlaylist' = s.activePlaylist
  /\ repeatMode' = s.repeatMode
  /\ isShuffle' = s.isShuffle
  /\ error' = s.error
  /\ currentAudioInfo' = s.currentAudioInfo
  /\ queueRef' = s.queueRef
  /\ queueIndexRef' = s.queueIndexRef
  /\ activePlaylistRef' = s.activePlaylistRef
  /\ playPauseTimeoutRef' = s.playPauseTimeoutRef
  /\ timers' = s.timers
  /\ audioPaused' = s.audioPaused
  /\ audioSrc' = s.audioSrc
  /\ audioTime' = s.audioTime
  /\ audioError' = s.audioError
  /\ playPromise' = s.playPromise
  /\ mediaEvents' = s.mediaEvents
  /\ microtasks' = s.microtasks
  /\ op' = s.op

Commit(s0) ==
  /\ CommitProvider(s0)
  /\ UNCHANGED << sampleDownloadUrls, result, processor, webAudio, awaiting,
                  resilience, home >>

Did(s, name, out) == [s EXCEPT !.op = [name |-> name, out |-> out]]

\* Steps that no claim needs to recognise afterwards leave the same mark.
Idle(s) == Did(s, "idle", "idle")

\* The provider after its first render, no track chosen yet.
InitProvider ==
  /\ currentSong = NoSong
  /\ isPlaying = FALSE
  /\ queue = << >>
  /\ queueIndex = 0
  /\ activePlaylist = NoPlaylist
  /\ repeatMode = "none"
  /\ isShuffle = FALSE
  /\ error = NoError
  /\ currentAudioInfo = EmptyInfo
  /\ queueRef = << >>
  /\ queueIndexRef = 0
  /\ activePlaylistRef = NoPlaylist
  /\ playPauseTimeoutRef = NoTimer
  /\ timers = << >>
  /\ audioPaused = TRUE
  /\ audioSrc = NoUrl
  /\ audioTime = 0
  /\ audioError = FALSE
  /\ playPromise = NoPromise
  /\ mediaEvents = << >>
  /\ microtasks = << >>
  /\ op = [name |-> "init", out |-> "init"]

\* useState(() => new AudioProcessor()): the provider's processor, with the
\* default configuration, never attached (the effect that would attach it
\* is commented out).
NoContext == 0

\* The processor holds its nodes or does not; params are the gain
\* parameters of the gain node and of the equalizer bands it holds, each
\* with its value and whether that value was last set by a scheduled,
\* smoothed change (setTargetAtTime) or by a write of .value.
NewProcessor(config) ==
  [audioContext |-> NoContext, sourceNode |-> FALSE, gainNode |-> FALSE,
   eqNodes |-> FALSE, compressorNode |-> FALSE, limiterNode |-> FALSE,
   analyserNode |-> FALSE, isInitialized |-> FALSE, params |-> << >>,
   config |-> config]

\* eqSettings of the constructor, in half decibels: lowGain 0, midGain 1,
\* highGain 0.5.
Bands == {"lowGain", "midGain", "highGain"}

DefaultEqSettings == [lowGain |-> 0, midGain |-> 2, highGain |-> 1]

DefaultConfig ==
  [enableEQ |-> TRUE, enableLimiter |-> TRUE, eqSettings |-> DefaultEqSettings]

\* The Web Audio side of the platform: whether AudioContext exists, the
\* state of every context created so far, the context whose source node has
\* captured the media element (a capture is for good), whether somebody
\* else's graph has captured it, and the connections between nodes.
NewWebAudio(supported) ==
  [supported |-> supported, contexts |-> << >>, captured |-> NoContext,
   foreign |-> FALSE, edges |-> {}]

\* export const rateLimitManager = new RateLimitManager(): the map of limits
\* is empty and no rate-limited call is under way.  now is Date.now(),
\* counted from the moment the module is loaded; admitted holds the times of
\* the shouldDelay calls of the last RESET_INTERVAL that returned 0.
InitResilience ==
  /\ now = 0
  /\ limits = << >>
  /\ calls = << >>
  /\ admitted = << >>

\* HomeView is not on screen, the store holds no 'recentlyPlayed' item
\* (an empty list stands for none, the view never stores an empty one), no
\* request for trending songs is under way, and nothing has been played;
\* played lists the tracks that became the current one, the latest first.
InitHome ==
  /\ homeView = "unmounted"
  /\ recentlyPlayed = << >>
  /\ localStorage = << >>
  /\ trending = "idle"
  /\ played = << >>

\* The selector has not been run beside the provider, and the processor is
\* idle.
Init ==
  /\ InitProvider
  /\ sampleDownloadUrls = << >>
  /\ result = << >>
  /\ processor = NewProcessor(DefaultConfig)
  /\ webAudio = NewWebAudio(TRUE)
  /\ awaiting = << >>
  /\ InitResilience
  /\ InitHome

\* ------------------------------------------------------------ the timers
\* The pending setTimeout callbacks in the order they were armed (they share
\* one delay, so they fire in that order). A callback carries the
\* isCurrentlyPlaying its closure captured; held marks the one whose id
\* playPauseTimeoutRef holds.
NotHeld(timer) == ~timer.held

Released(pending) ==
  [i \in 1 .. Len(pending) |-> [pending[i] EXCEPT !.held = FALSE]]

\* if (playPauseTimeoutRef.current) { clearTimeout(...); ... = null }
ClearTimeout(s) ==
  IF s.playPauseTimeoutRef = NoTimer THEN s
  ELSE [s EXCEPT !.timers = SelectSeq(@, NotHeld),
                 !.playPauseTimeoutRef = NoTimer]

\* playPauseTimeoutRef.current = setTimeout(callback, 150)
SetTimeout(s, isCurrentlyPlaying) ==
  [s EXCEPT !.timers = Append(Released(@),
                              [isCurrentlyPlaying |-> isCurrentlyPlaying,
                               held |-> TRUE]),
            !.playPauseTimeoutRef = "armed"]

\* ---------------------------------------------------- the media element
\* HTMLMediaElement as the controller sees it: paused, src, currentTime,
\* error, the pending play() promise, the queued media events, and the
\* continuations of settled promises that run before the next task.
Settled(p, kind) ==
  [kind |-> kind, owner |-> p.owner, superseded |-> p.superseded]

\* Reject the pending play() promise with AbortError.
AbortPending(s) ==
  IF s.playPromise.owner = "none" THEN s
  ELSE [s EXCEPT !.playPromise = NoPromise,
                 !.microtasks = Append(@, Settled(s.playPromise, "AbortError"))]

\* audio.pause()
AudioPause(s) ==
  IF s.audioPaused THEN s
  ELSE AbortPending([s EXCEPT !.audioPaused = TRUE,
                              !.mediaEvents = Append(@, "pause")])

\* audio.src = url: the load algorithm drops the queued media events,
\* rejects what is pending and resets the element.
AudioLoad(s, url) ==
  AbortPending([s EXCEPT !.mediaEvents = << >>, !.audioPaused = TRUE,
                         !.audioSrc = url, !.audioTime = 0,
                         !.audioError = FALSE])

\* audio.play(): refused at once without a user gesture (allowed = FALSE),
\* otherwise the element leaves the paused state and the promise is pending
\* until playback has started or failed.
AudioPlay(s, owner, allowed) ==
  IF ~allowed
  THEN [s EXCEPT !.microtasks =
          Append(@, [kind |-> "NotAllowedError", owner |-> owner,
                     superseded |-> "no"])]
  ELSE [s EXCEPT !.audioPaused = FALSE,
                 !.mediaEvents = IF s.audioPaused THEN Append(@, "play") ELSE @,
                 !.playPromise = IF s.playPromise.owner = "none"
                                 THEN [owner |-> owner, superseded |-> "no"]
                                 ELSE @]

\* The element is producing sound.
AudioPlaying(s) ==
  /\ ~s.audioPaused
  /\ s.audioSrc # NoUrl
  /\ ~s.audioError
  /\ s.playPromise.owner = "none"

\* ------------------------------------------------------------- handlers
NoAudioUrl == "Cannot play song: No audio URL available"

\* A later play request reached a promise that is still pending.
Supersede(s, how) ==
  IF s.playPromise.owner = "none" THEN s
  ELSE [s EXCEPT !.playPromise.superseded = how]

\* A faulty variant: the element is asked to play without the new source
\* being assigned.
proceedWithPlaybackWithoutLoad(s, song, allowed) ==
  LET audioSourceInfo ==
        IF DownloadUrl(song) # << >>
        THEN selectOptimalAudioSource(DownloadUrl(song))
        ELSE [selectedUrl |-> Url(song), detectedQuality |-> "unknown",
              availableQualities |-> << >>]
  IN IF audioSourceInfo.selectedUrl = NoUrl
     THEN Did([Supersede(s, "rejected") EXCEPT !.error = NoAudioUrl],
              "playSong", "noSource")
     ELSE LET s1 == [Supersede(s, "accepted") EXCEPT
                       !.error = NoError,
                       !.currentSong = song,
                       !.currentAudioInfo = audioSourceInfo]
              s2 == [AudioPause(s1) EXCEPT !.audioTime = 0]
          IN Did(AudioPlay(s2, "playSong", allowed),
                 "playSong", IF allowed THEN "started" ELSE "refused")

proceedWithPlayback(s, song, allowed) ==
  LET audioSourceInfo ==
        IF DownloadUrl(song) # << >>
        THEN selectOptimalAudioSource(DownloadUrl(song))
        ELSE [selectedUrl |-> Url(song), detectedQuality |-> "unknown",
              availableQualities |-> << >>]
  IN IF audioSourceInfo.selectedUrl = NoUrl
     THEN Did([Supersede(s, "rejected") EXCEPT !.error = NoAudioUrl],
              "playSong", "noSource")
     ELSE LET s1 == [Supersede(s, "accepted") EXCEPT
                       !.error = NoError,
                       !.currentSong = song,
                       !.currentAudioInfo = audioSourceInfo]
              s2 == AudioPause(s1)
              s3 == AudioLoad([s2 EXCEPT !.audioTime = 0],
                              audioSourceInfo.selectedUrl)
          IN Did(AudioPlay(s3, "playSong", allowed),
                 "playSong", IF allowed THEN "started" ELSE "refused")

\* playSong that leaves the timer of a pending click running.
playSongWithoutClear(s, song, allowed) == proceedWithPlayback(s, song, allowed)

playSong(s, song, allowed) ==
  proceedWithPlayback(ClearTimeout(s), song, allowed)

\* The sequential branch and the shuffle branches of playNext: the indices
\* the handler may resolve to, or Stop when it stops at the end of the list.
Stop == -2

PlaylistToUse(s) ==
  IF s.activePlaylistRef.present THEN s.activePlaylistRef.tracks
  ELSE s.queueRef

\* A faulty variant: the cursor is always the one of the queue.
PlaylistIndexOfQueue(s) == s.queueIndexRef

PlaylistIndex(s) ==
  IF s.activePlaylistRef.present
     /\ s.activePlaylistRef.currentIndex # Undefined
  THEN s.activePlaylistRef.currentIndex
  ELSE s.queueIndexRef

\* Math.floor(Math.random() * n) drawn until it differs from the current
\* index.
RandomOtherThan(n, current) == {i \in 0 .. n - 1 : i # current}

\* .map((song, index) => ...).filter(song.language === playlist.language)
SameLanguageSongs(list, language) ==
  {i \in 0 .. Len(list) - 1 : Language(list[i + 1]) = language}

\* A faulty variant: the sequential branch stops at the end of the list
\* whatever the repeat mode.
NextIndicesNoWrap(s, rm, sh) ==
  LET n == Len(PlaylistToUse(s))
      idx == PlaylistIndex(s)
  IN IF sh /\ n > 1 THEN RandomOtherThan(n, idx)
     ELSE IF idx + 1 >= n THEN {Stop} ELSE {idx + 1}

\* sameLanguageSongs.findIndex(index === playlistIndex) compared by position:
\* the drawn entry is any entry but the current one.
NextIndices(s, rm, sh) ==
  LET list == PlaylistToUse(s)
      idx == PlaylistIndex(s)
      n == Len(list)
  IN IF sh /\ n > 1
     THEN IF s.activePlaylistRef.present /\ s.activePlaylistRef.language # ""
          THEN LET same == SameLanguageSongs(list, s.activePlaylistRef.language)
               IN IF Cardinality(same) > 1
                  THEN same \ {idx}
                  ELSE {IF idx + 1 >= n THEN 0 ELSE idx + 1}
          ELSE RandomOtherThan(n, idx)
     ELSE IF idx + 1 >= n
          THEN IF rm = "all" THEN {0} ELSE {Stop}
          ELSE {idx + 1}

\* A faulty variant: the transport position is not reset.
StopPlaybackKeepsPosition(s) == AudioPause([s EXCEPT !.isPlaying = FALSE])

\* setIsPlaying(false); audio.pause(); audio.currentTime = 0
StopPlayback(s) ==
  [AudioPause([s EXCEPT !.isPlaying = FALSE]) EXCEPT !.audioTime = 0]

\* rm and sh are the repeatMode and isShuffle of the render whose closure
\* runs; nextIndex is the resolved index.
playNext(s, rm, sh, nextIndex, allowed) ==
  LET list == PlaylistToUse(s)
      idx == PlaylistIndex(s)
  IN IF Len(list) > 0 /\ idx >= 0
     THEN IF nextIndex = Stop
          THEN Did(StopPlayback(s), "playNext", "stopped")
          ELSE LET s1 == IF s.activePlaylistRef.present
                         THEN [s EXCEPT !.activePlaylist =
                                 [s.activePlaylistRef EXCEPT
                                    !.currentIndex = nextIndex]]
                         ELSE s
                   s2 == [s1 EXCEPT !.queueIndex = nextIndex]
                   s3 == playSong(s2, list[nextIndex + 1], allowed)
               IN Did(s3, "playNext", s3.op.out)
     ELSE Did(StopPlayback(s), "playNext", "empty")

PrevIndices(s, rm, sh) ==
  LET list == PlaylistToUse(s)
      idx == PlaylistIndex(s)
      n == Len(list)
  IN IF sh /\ n > 1
     THEN RandomOtherThan(n, idx)
     ELSE IF idx - 1 < 0
          THEN IF rm = "all" THEN {n - 1} ELSE {0}
          ELSE {idx - 1}

\* A faulty variant: the track restarts from RestartThreshold seconds on,
\* not after them.
playPreviousFromThreshold(s, rm, sh, prevIndex, allowed) ==
  LET list == PlaylistToUse(s)
      idx == PlaylistIndex(s)
      s1 == [s EXCEPT !.activePlaylist =
               IF s.activePlaylistRef.present
               THEN [s.activePlaylistRef EXCEPT !.currentIndex = prevIndex]
               ELSE @,
                      !.queueIndex = prevIndex]
  IN IF s.audioTime >= RestartThreshold
     THEN Did([s EXCEPT !.audioTime = 0], "playPrevious", "restarted")
     ELSE IF Len(list) > 0 /\ idx >= 0
          THEN Did(playSong(s1, list[prevIndex + 1], allowed), "playPrevious",
                   playSong(s1, list[prevIndex + 1], allowed).op.out)
          ELSE Did(s, "playPrevious", "empty")

playPrevious(s, rm, sh, prevIndex, allowed) ==
  LET list == PlaylistToUse(s)
      idx == PlaylistIndex(s)
  IN IF s.audioTime > RestartThreshold
     THEN Did([s EXCEPT !.audioTime = 0], "playPrevious", "restarted")
     ELSE IF Len(list) > 0 /\ idx >= 0
          THEN LET s1 == IF s.activePlaylistRef.present
                         THEN [s EXCEPT !.activePlaylist =
                                 [s.activePlaylistRef EXCEPT
                                    !.currentIndex = prevIndex]]
                         ELSE s
                   s2 == [s1 EXCEPT !.queueIndex = prevIndex]
                   s3 == playSong(s2, list[prevIndex + 1], allowed)
               IN Did(s3, "playPrevious", s3.op.out)
          ELSE Did(s, "playPrevious", "empty")

RECURSIVE FilterValid(_)
FilterValid(playlist) ==
  IF playlist = << >> THEN << >>
  ELSE IF HasIdAndName(Head(playlist))
       THEN << Head(playlist) >> \o FilterValid(Tail(playlist))
       ELSE FilterValid(Tail(playlist))

NoValidSongs == "No valid songs to play"

\* A faulty variant: the list always starts at its first track.
setPlaylistAndPlayFromStart(s, playlist, index, allowed) ==
  IF Len(playlist) = 0 \/ index < 0 \/ index >= Len(playlist)
  THEN Did(s, "setPlaylistAndPlay", "ignored")
  ELSE LET validPlaylist == FilterValid(playlist)
       IN IF Len(validPlaylist) = 0
          THEN Did([s EXCEPT !.error = NoValidSongs],
                   "setPlaylistAndPlay", "noValidSongs")
          ELSE LET s1 == [s EXCEPT
                            !.activePlaylist =
                               [present |-> TRUE, tracks |-> validPlaylist,
                                currentIndex |-> 0, language |-> ""],
                            !.queue = validPlaylist,
                            !.queueIndex = 0]
                   s2 == playSong(s1, validPlaylist[1], allowed)
               IN Did(s2, "setPlaylistAndPlay", s2.op.out)

\* A faulty variant: the cursor of the queue is left where it was.
setPlaylistAndPlayKeepsCursor(s, playlist, index, allowed) ==
  IF Len(playlist) = 0 \/ index < 0 \/ index >= Len(playlist)
  THEN Did(s, "setPlaylistAndPlay", "ignored")
  ELSE LET validPlaylist == FilterValid(playlist)
           validIndex == IF index >= Len(validPlaylist) THEN 0 ELSE index
       IN IF Len(validPlaylist) = 0
          THEN Did([s EXCEPT !.error = NoValidSongs],
                   "setPlaylistAndPlay", "noValidSongs")
          ELSE LET s1 == [s EXCEPT
                            !.activePlaylist =
                               [present |-> TRUE, tracks |-> validPlaylist,
                                currentIndex |-> validIndex, language |-> ""],
                            !.queue = validPlaylist]
                   s2 == playSong(s1, validPlaylist[validIndex + 1], allowed)
               IN Did(s2, "setPlaylistAndPlay", s2.op.out)

\* A faulty variant: the list and the index are committed before the list
\* is validated.
setPlaylistAndPlayCommitsFirst(s, playlist, index, allowed) ==
  IF Len(playlist) = 0
  THEN Did(s, "setPlaylistAndPlay", "ignored")
  ELSE IF index < 0 \/ index >= Len(playlist)
  THEN Did(s, "setPlaylistAndPlay", "ignored")
  ELSE LET validPlaylist == FilterValid(playlist)
           validIndex == IF index >= Len(validPlaylist) THEN 0 ELSE index
       IN IF Len(validPlaylist) = 0
          THEN Did([s EXCEPT !.error = NoValidSongs, !.queue = playlist,
                             !.queueIndex = index],
                   "setPlaylistAndPlay", "noValidSongs")
          ELSE LET s1 == [s EXCEPT
                            !.activePlaylist =
                               [present |-> TRUE, tracks |-> validPlaylist,
                                currentIndex |-> validIndex, language |-> ""],
                            !.queue = validPlaylist,
                            !.queueIndex = validIndex]
                   s2 == playSong(s1, validPlaylist[validIndex + 1], allowed)
               IN Did(s2, "setPlaylistAndPlay", s2.op.out)

setPlaylistAndPlay(s, playlist, index, allowed) ==
  IF Len(playlist) = 0
  THEN Did(s, "setPlaylistAndPlay", "ignored")
  ELSE IF index < 0 \/ index >= Len(playlist)
  THEN Did(s, "setPlaylistAndPlay", "ignored")
  ELSE LET validPlaylist == FilterValid(playlist)
           validIndex == IF index >= Len(validPlaylist) THEN 0 ELSE index
       IN IF Len(validPlaylist) = 0
          THEN Did([s EXCEPT !.error = NoValidSongs],
                   "setPlaylistAndPlay", "noValidSongs")
          ELSE LET s1 == [s EXCEPT
                            !.activePlaylist =
                               [present |-> TRUE, tracks |-> validPlaylist,
                                currentIndex |-> validIndex, language |-> ""],
                            !.queue = validPlaylist,
                            !.queueIndex = validIndex]
                   s2 == playSong(s1, validPlaylist[validIndex + 1], allowed)
               IN Did(s2, "setPlaylistAndPlay", s2.op.out)

\* A timer armed by an earlier click is still pending.
TimerPending(s) ==
  s.playPauseTimeoutRef # NoTimer /\ SelectSeq(s.timers, NotHeld) # s.timers

\* A faulty variant: the timer of the previous click is left running.
togglePlayPauseWithoutClear(s) ==
  IF s.currentSong = NoSong
  THEN Did(s, "togglePlayPause", "noSong")
  ELSE LET isCurrentlyPlaying == ~s.audioPaused
           s1 == [s EXCEPT !.isPlaying = ~isCurrentlyPlaying]
       IN Did(SetTimeout(s1, isCurrentlyPlaying),
              "togglePlayPause", IF TimerPending(s) THEN "rearmed" ELSE "armed")

\* A faulty variant: the transition is decided by the cached flag.
togglePlayPauseByFlag(s) ==
  IF s.currentSong = NoSong
  THEN Did(s, "togglePlayPause", "noSong")
  ELSE LET isCurrentlyPlaying == s.isPlaying
           s1 == [ClearTimeout(s) EXCEPT !.isPlaying = ~isCurrentlyPlaying]
       IN Did(SetTimeout(s1, isCurrentlyPlaying),
              "togglePlayPause", IF TimerPending(s) THEN "rearmed" ELSE "armed")

togglePlayPause(s) ==
  IF s.currentSong = NoSong
  THEN Did(s, "togglePlayPause", "noSong")
  ELSE LET isCurrentlyPlaying == ~s.audioPaused
           s1 == [ClearTimeout(s) EXCEPT !.isPlaying = ~isCurrentlyPlaying]
       IN Did(SetTimeout(s1, isCurrentlyPlaying),
              "togglePlayPause", IF TimerPending(s) THEN "rearmed" ELSE "armed")

NoAudioSource == "No audio source available"
NotAllowedClick == "Playback not allowed. Please click play to start."
NotAllowedInteract == "Playback not allowed. Please interact with the page first."
FormatNotSupported == "Audio format not supported"
NetworkUnableToLoad == "Network error: Unable to load audio"
NetworkDuringPlayback == "Network error during playback"
FailedToPlay == "Failed to play song"
FailedToResume == "Failed to resume playback"

\* The callback of the oldest pending debounce timer, with the
\* isCurrentlyPlaying its closure captured. The callback leaves
\* playPauseTimeoutRef alone.
toggleTimeout(s, allowed) ==
  LET s0 == [s EXCEPT !.timers = Tail(@)]
  IN IF Head(s.timers).isCurrentlyPlaying
     THEN Did(AudioPause(s0), "toggleTimeout", "pause")
     ELSE IF s.audioSrc = NoUrl
          THEN Did([s0 EXCEPT !.error = NoAudioSource, !.isPlaying = FALSE],
                   "toggleTimeout", "noSource")
          ELSE Did(AudioPlay(s0, "toggle", allowed), "toggleTimeout",
                   IF allowed THEN "play" ELSE "refused")

\* The catch blocks behind "await playPromise": the one of attemptPlay for
\* a promise playSong created, the one of the timer callback otherwise.
playRejected(s, task) ==
  LET fromPlaySong == task.owner = "playSong"
      msg == CASE task.kind = "NotAllowedError" ->
                    IF fromPlaySong THEN NotAllowedClick ELSE NotAllowedInteract
               [] task.kind = "NotSupportedError" -> FormatNotSupported
               [] task.kind = "NetworkError" ->
                    IF fromPlaySong THEN NetworkUnableToLoad
                    ELSE NetworkDuringPlayback
               [] OTHER -> IF fromPlaySong THEN FailedToPlay ELSE FailedToResume
  IN IF task.kind = "AbortError"
     THEN Did(s, "playRejected", task.superseded)
     ELSE Did([s EXCEPT !.error = msg, !.isPlaying = FALSE],
              "playRejected", task.kind)

\* What follows "await playPromise" when the promise is fulfilled.
playFulfilled(s, owner) ==
  Idle(IF owner = "playSong" THEN [s EXCEPT !.isPlaying = TRUE] ELSE s)

handlePlay(s) == [s EXCEPT !.isPlaying = TRUE]

handlePause(s) == [s EXCEPT !.isPlaying = FALSE]

\* A faulty variant: the flag is left as it was.
handleErrorKeepsFlag(s, code) ==
  LET msg == CASE code = "MEDIA_ERR_ABORTED" -> s.error
               [] code = "MEDIA_ERR_NETWORK" -> "Network error loading audio"
               [] code = "MEDIA_ERR_DECODE" -> "Audio format error"
               [] code = "MEDIA_ERR_SRC_NOT_SUPPORTED" -> FormatNotSupported
               [] OTHER -> "Audio playback error"
  IN [s EXCEPT !.error = msg]

handleError(s, code) ==
  LET msg == CASE code = "MEDIA_ERR_ABORTED" -> s.error
               [] code = "MEDIA_ERR_NETWORK" -> "Network error loading audio"
               [] code = "MEDIA_ERR_DECODE" -> "Audio format error"
               [] code = "MEDIA_ERR_SRC_NOT_SUPPORTED" -> FormatNotSupported
               [] OTHER -> "Audio playback error"
  IN [s EXCEPT !.error = msg, !.isPlaying = FALSE]

\* seekTo(time): a number that is not NaN and not negative is written to
\* audio.currentTime. The element clamps a finite position to the duration
\* and throws on a non-finite one, which the handler catches.
Finite(value) == [kind |-> "finite", value |-> value]

AudioSeek(s, value) ==
  [s EXCEPT !.audioTime = IF value > EndOfTrack THEN EndOfTrack ELSE value]

seekTo(s, time) ==
  IF time.kind = "NaN" \/ (time.kind = "finite" /\ time.value < 0)
  THEN Did(s, "seekTo", "ignored")
  ELSE IF time.kind = "Infinity"
  THEN Did(s, "seekTo", "caught")
  ELSE Did(AudioSeek(s, time.value), "seekTo", "sought")

\* The listeners are registered once, by the effect of the first render:
\* the playNext they call is the one of that render, whose repeatMode and
\* isShuffle are the initial ones.
FirstRenderRepeatMode == "none"
FirstRenderIsShuffle == FALSE

handleEnded(s, nextIndex, allowed) ==
  LET s1 == playNext([s EXCEPT !.isPlaying = FALSE],
                     FirstRenderRepeatMode, FirstRenderIsShuffle,
                     nextIndex, allowed)
  IN Did(s1, "handleEnded", s1.op.out)

\* ---------------------------------------------------------------- actions
\* The track lists a caller passes: selections of at most MaxLen tracks of
\* the listing, in its order.
TrackLists ==
  UNION {{l \in [1 .. n -> Tracks] : \A i, j \in 1 .. n : i < j => l[i] < l[j]}
         : n \in 0 .. MaxLen}

PlaySong(song, allowed) ==
  /\ microtasks = << >>
  /\ Commit(playSong(Cur, song, allowed))

SetPlaylistAndPlay(playlist, index, allowed) ==
  /\ microtasks = << >>
  /\ Commit(setPlaylistAndPlay(Cur, playlist, index, allowed))

PlayNext(nextIndex, allowed) ==
  /\ microtasks = << >>
  /\ nextIndex \in NextIndices(Cur, repeatMode, isShuffle)
  /\ Commit(playNext(Cur, repeatMode, isShuffle, nextIndex, allowed))

PlayPrevious(prevIndex, allowed) ==
  /\ microtasks = << >>
  /\ prevIndex \in PrevIndices(Cur, repeatMode, isShuffle)
  /\ Commit(playPrevious(Cur, repeatMode, isShuffle, prevIndex, allowed))

TogglePlayPause ==
  /\ microtasks = << >>
  /\ Commit(togglePlayPause(Cur))

\* The timer fires at least 150 ms after it was armed, long after the
\* element has dispatched what an earlier task queued: at most MaxEvents
\* events are waiting when it does.
ToggleTimeout(allowed) ==
  /\ microtasks = << >>
  /\ timers # << >>
  /\ Len(mediaEvents) < MaxEvents
  /\ Commit(toggleTimeout(Cur, allowed))

SetRepeatMode(mode) ==
  /\ microtasks = << >>
  /\ mode # repeatMode
  /\ Commit(Idle([Cur EXCEPT !.repeatMode = mode]))

SetIsShuffle(shuffle) ==
  /\ microtasks = << >>
  /\ shuffle # isShuffle
  /\ Commit(Idle([Cur EXCEPT !.isShuffle = shuffle]))

\* PlaylistImportDialog: setQueue(data.playlist.tracks) on a non-empty import.
ImportPlaylist(tracks) ==
  /\ microtasks = << >>
  /\ Len(tracks) > 0
  /\ Commit(Did([Cur EXCEPT !.queue = tracks], "importPlaylist", "setQueue"))

\* A continuation of a settled play() promise runs before the next task.
RunMicrotask ==
  /\ microtasks # << >>
  /\ Commit(playRejected([Cur EXCEPT !.microtasks = Tail(@)], Head(microtasks)))

\* The element dispatches a queued 'play' or 'pause' event.
DispatchMediaEvent ==
  /\ microtasks = << >>
  /\ mediaEvents # << >>
  /\ LET s == [Cur EXCEPT !.mediaEvents = Tail(@)]
     IN Commit(Idle(IF Head(mediaEvents) = "play" THEN handlePlay(s)
                    ELSE handlePause(s)))

\* Playback has started: the pending play() promise is fulfilled. The
\* element queues its tasks in order, so the events queued before are
\* dispatched first; the same holds for the failures below.
PlayStarted ==
  /\ microtasks = << >>
  /\ mediaEvents = << >>
  /\ playPromise.owner # "none"
  /\ ~audioError
  /\ Commit(playFulfilled([Cur EXCEPT !.playPromise = NoPromise],
                          playPromise.owner))

\* The source cannot be loaded: 'error' event, then the pending promise is
\* rejected with NotSupportedError.
LoadFailed ==
  /\ microtasks = << >>
  /\ mediaEvents = << >>
  /\ playPromise.owner # "none"
  /\ LET s1 == handleError([Cur EXCEPT !.audioError = TRUE,
                                       !.playPromise = NoPromise],
                           "MEDIA_ERR_SRC_NOT_SUPPORTED")
     IN Commit(playRejected(s1, Settled(playPromise, "NotSupportedError")))

\* A network or decode error while the track plays.
MediaErrorEvent(code) ==
  /\ microtasks = << >>
  /\ mediaEvents = << >>
  /\ AudioPlaying(Cur)
  /\ Commit(Did(handleError([Cur EXCEPT !.audioError = TRUE], code),
                "handleError", code))

\* The track plays to its end: the element pauses itself, fires 'pause' and
\* then 'ended'.
TrackEnded(nextIndex, allowed) ==
  /\ microtasks = << >>
  /\ mediaEvents = << >>
  /\ AudioPlaying(Cur)
  /\ LET s1 == handlePause([Cur EXCEPT !.audioPaused = TRUE,
                                       !.audioTime = EndOfTrack])
     IN /\ nextIndex \in NextIndices(s1, FirstRenderRepeatMode,
                                     FirstRenderIsShuffle)
        /\ Commit(handleEnded(s1, nextIndex, allowed))

\* Playback advances.
Tick(t) ==
  /\ microtasks = << >>
  /\ AudioPlaying(Cur)
  /\ t > audioTime
  /\ Commit(Idle([Cur EXCEPT !.audioTime = t]))

Indices == Stop .. MaxLen

\* The controller driven through play, setPlaylistAndPlay, next, previous
\* and the shuffle and repeat switches, over the media element.
Next ==
  \/ \E song \in ValidTracks : PlaySong(song, TRUE)
  \/ \E playlist \in TrackLists : \E index \in -1 .. Len(playlist) :
       SetPlaylistAndPlay(playlist, index, TRUE)
  \/ \E nextIndex \in Indices : PlayNext(nextIndex, TRUE)
  \/ \E prevIndex \in Indices : PlayPrevious(prevIndex, TRUE)
  \/ \E mode \in {"none", "one", "all"} : SetRepeatMode(mode)
  \/ \E shuffle \in BOOLEAN : SetIsShuffle(shuffle)
  \/ RunMicrotask
  \/ DispatchMediaEvent
  \/ PlayStarted
  \/ LoadFailed
  \/ \E nextIndex \in Indices, allowed \in BOOLEAN : TrackEnded(nextIndex, allowed)
  \/ \E t \in TimePoints : Tick(t)

Spec == Init /\ [][Next]_vars

\* The same system with the scheduling the event loop gives: a continuation
\* of a settled promise runs, a queued media event is dispatched although
\* loads may drop it in between, and a pending play() promise is settled.
LiveSpec ==
  /\ Spec
  /\ WF_vars(RunMicrotask)
  /\ SF_vars(DispatchMediaEvent)
  /\ WF_vars(PlayStarted \/ LoadFailed)

\* The provider hands setActivePlaylist to its consumers: a view sets the
\* playlist it shows, with the cursor on one of its tracks and, for search
\* results, the language the results were asked for.  The lists are the
\* longest ones a caller passes elsewhere and the whole listing, in which
\* two tracks of either language alternate.
Listing == [i \in 1 .. Cardinality(Tracks) |-> i]

SearchResults == {l \in TrackLists : Len(l) = MaxLen} \cup {Listing}

Languages == {Language(t) : t \in Tracks}

Playlists ==
  {[present |-> TRUE, tracks |-> tracks, currentIndex |-> index,
    language |-> language] :
     tracks \in SearchResults, index \in 0 .. Cardinality(Tracks) - 1,
     language \in Languages}

SetActivePlaylist(playlist) ==
  /\ microtasks = << >>
  /\ playlist.currentIndex < Len(playlist.tracks)
  /\ Commit(Did([Cur EXCEPT !.activePlaylist = playlist],
                "setActivePlaylist", "set"))

\* The controller under a view that sets the active playlist, with the
\* shuffle and repeat switches and the skip forward button.
NextShuffle ==
  \/ \E playlist \in Playlists : SetActivePlaylist(playlist)
  \/ \E nextIndex \in Stop .. Cardinality(Tracks) - 1 :
       PlayNext(nextIndex, TRUE)
  \/ \E mode \in {"none", "one", "all"} : SetRepeatMode(mode)
  \/ \E shuffle \in BOOLEAN : SetIsShuffle(shuffle)
  \/ RunMicrotask
  \/ DispatchMediaEvent
  \/ PlayStarted

SpecShuffle == Init /\ [][NextShuffle]_vars

\* The selections of any number of tracks of the listing, in its order.
Selections ==
  UNION {{l \in [1 .. n -> Tracks] : \A i, j \in 1 .. n : i < j => l[i] < l[j]}
         : n \in 0 .. Cardinality(Tracks)}

\* The controller driven through the queue only: setPlaylistAndPlay, next
\* and previous, with the shuffle and repeat switches.
NextQueue ==
  \/ \E playlist \in Selections : \E index \in -1 .. Len(playlist) :
       SetPlaylistAndPlay(playlist, index, TRUE)
  \/ \E nextIndex \in Indices : PlayNext(nextIndex, TRUE)
  \/ \E prevIndex \in Indices : PlayPrevious(prevIndex, TRUE)
  \/ \E mode \in {"none", "one", "all"} : SetRepeatMode(mode)
  \/ \E shuffle \in BOOLEAN : SetIsShuffle(shuffle)
  \/ RunMicrotask
  \/ DispatchMediaEvent
  \/ PlayStarted
  \/ \E t \in TimePoints : Tick(t)

SpecQueue == Init /\ [][NextQueue]_vars

\* The controller under a view that sets the active playlist on its own,
\* which leaves the queue and its cursor as they were, and then drives the
\* queue: setPlaylistAndPlay, next and previous.  The view shows the whole
\* listing under the language of its first track; the selections played are
\* those of two tracks.
NextCursor ==
  \/ \E playlist \in {p \in Playlists : /\ p.tracks = Listing
                                         /\ p.language = Language(Listing[1])} :
       SetActivePlaylist(playlist)
  \/ \E playlist \in {l \in Selections : Len(l) = 2} :
       \E index \in -1 .. Len(playlist) :
         SetPlaylistAndPlay(playlist, index, TRUE)
  \/ \E nextIndex \in Stop .. Cardinality(Tracks) - 1 :
       PlayNext(nextIndex, TRUE)
  \/ \E prevIndex \in Stop .. Cardinality(Tracks) - 1 :
       PlayPrevious(prevIndex, TRUE)
  \/ \E mode \in {"none", "one", "all"} : SetRepeatMode(mode)
  \/ \E shuffle \in BOOLEAN : SetIsShuffle(shuffle)
  \/ RunMicrotask
  \/ DispatchMediaEvent
  \/ PlayStarted
  \/ \E t \in TimePoints : Tick(t)

SpecCursor == Init /\ [][NextCursor]_vars

\* The controller with the play/pause button beside the ways a track is
\* started: play, setPlaylistAndPlay, next and previous.
NextDebounce ==
  \/ \E song \in ValidTracks : PlaySong(song, TRUE)
  \/ \E playlist \in TrackLists : \E index \in -1 .. Len(playlist) :
       SetPlaylistAndPlay(playlist, index, TRUE)
  \/ \E nextIndex \in Indices : PlayNext(nextIndex, TRUE)
  \/ \E prevIndex \in Indices : PlayPrevious(prevIndex, TRUE)
  \/ TogglePlayPause
  \/ \E allowed \in BOOLEAN : ToggleTimeout(allowed)
  \/ RunMicrotask
  \/ DispatchMediaEvent
  \/ PlayStarted

SpecDebounce == Init /\ [][NextDebounce]_vars

\* The controller with the playlist import dialog beside it: a list is
\* started, the dialog replaces the queue, the user skips forward.
NextImport ==
  \/ \E playlist \in TrackLists : \E index \in -1 .. Len(playlist) :
       SetPlaylistAndPlay(playlist, index, TRUE)
  \/ \E tracks \in TrackLists : ImportPlaylist(tracks)
  \/ \E nextIndex \in Indices : PlayNext(nextIndex, TRUE)
  \/ RunMicrotask
  \/ DispatchMediaEvent
  \/ PlayStarted

SpecImport == Init /\ [][NextImport]_vars

\* The positions a caller passes to seekTo: the points the model keeps, one
\* below zero, one beyond the end of the track, NaN and Infinity.
SeekTimes ==
  {Finite(t) : t \in TimePoints \cup {0 - 1, EndOfTrack + 1}}
    \cup {[kind |-> "NaN", value |-> 0], [kind |-> "Infinity", value |-> 0]}

SeekTo(time) ==
  /\ microtasks = << >>
  /\ Commit(seekTo(Cur, time))

MediaErrorCodes ==
  {"MEDIA_ERR_ABORTED", "MEDIA_ERR_NETWORK", "MEDIA_ERR_DECODE",
   "MEDIA_ERR_SRC_NOT_SUPPORTED"}

\* The transport controls of one track: play, the debounced play/pause
\* button, seeking, and what the element reports back.
NextTransport ==
  \/ \E song \in ValidTracks : PlaySong(song, TRUE)
  \/ TogglePlayPause
  \/ \E allowed \in BOOLEAN : ToggleTimeout(allowed)
  \/ \E time \in SeekTimes : SeekTo(time)
  \/ RunMicrotask
  \/ DispatchMediaEvent
  \/ PlayStarted
  \/ LoadFailed
  \/ \E code \in MediaErrorCodes : MediaErrorEvent(code)
  \/ \E nextIndex \in Indices : TrackEnded(nextIndex, TRUE)

SpecTransport == Init /\ [][NextTransport]_vars

\* The selector on its own, as testAudioSourceOptimizer runs it: a candidate
\* list is handed to selectOptimalAudioSource and the result kept.  The
\* lists are of at most MaxCands candidates, with these tags and links.
SampleTags == {Kbps96, Kbps160, Kbps256, Kbps320, << "u", "n", "k", "n", "o", "w", "n" >>}

SampleLinks == {NoUrl, 11, 12, 13, 14}

SampleCandidates == [quality : SampleTags, link : SampleLinks]

CandidateLists == UNION {[1 .. n -> SampleCandidates] : n \in 0 .. MaxCands}

InitSelect ==
  /\ InitProvider
  /\ sampleDownloadUrls \in CandidateLists
  /\ result = << >>
  /\ processor = NewProcessor(DefaultConfig)
  /\ webAudio = NewWebAudio(TRUE)
  /\ awaiting = << >>
  /\ InitResilience
  /\ InitHome

Select ==
  /\ result = << >>
  /\ result' = << selectOptimalAudioSource(sampleDownloadUrls) >>
  /\ UNCHANGED << currentSong, isPlaying, queue, queueIndex, activePlaylist,
                  repeatMode, isShuffle, error, currentAudioInfo,
                  queueRef, queueIndexRef, activePlaylistRef,
                  playPauseTimeoutRef, timers, audioPaused, audioSrc,
                  audioTime, audioError, playPromise, mediaEvents,
                  microtasks, op, sampleDownloadUrls,
                  processor, webAudio, awaiting, resilience, home >>

SpecSelect == InitSelect /\ [][Select]_vars

\* ------------------------------------------------------- audio processor
\* The AudioProcessor and the Web Audio platform as one record, so that the
\* methods compose; ret is what the call returned ("pending" while it waits
\* at an await).
World ==
  [processor |-> processor, webAudio |-> webAudio, awaiting |-> awaiting,
   ret |-> "none"]

Returned(w, ret) == [w EXCEPT !.ret = ret]

\* The nodes the processor holds, by the names of its fields.
HeldNodes(p) ==
  (IF p.sourceNode THEN {"source"} ELSE {})
    \cup (IF p.gainNode THEN {"gain"} ELSE {})
    \cup (IF p.analyserNode THEN {"analyser"} ELSE {})
    \cup (IF p.eqNodes THEN {"lowShelf", "midPeaking", "highShelf"} ELSE {})
    \cup (IF p.compressorNode THEN {"compressor"} ELSE {})
    \cup (IF p.limiterNode THEN {"limiter"} ELSE {})

\* node.disconnect(): all outgoing connections of the nodes go.
Disconnect(w, nodes) ==
  [w EXCEPT !.webAudio.edges = {e \in @ : e[1] \notin nodes}]

\* audioContext.close()
Close(w, context) == [w EXCEPT !.webAudio.contexts[context] = "closed"]

\* dispose that drops its reference to the context without closing it.
disposeWithoutClose(w) ==
  [Disconnect(w, HeldNodes(w.processor)) EXCEPT
     !.processor = NewProcessor(w.processor.config)]

dispose(w) ==
  LET p == w.processor
      w1 == Disconnect(w, HeldNodes(p))
      w2 == IF p.audioContext # NoContext THEN Close(w1, p.audioContext)
            ELSE w1
  IN [w2 EXCEPT !.processor = NewProcessor(p.config)]

connectProcessingChain(w) ==
  LET p == w.processor
      eq == p.config.enableEQ /\ p.eqNodes
      limiter == p.config.enableLimiter /\ p.compressorNode /\ p.limiterNode
      afterEq == IF eq THEN "highShelf" ELSE "source"
      afterLimiter == IF limiter THEN "limiter" ELSE afterEq
      currentNode == IF p.gainNode THEN "gain" ELSE afterLimiter
      connections ==
        (IF eq THEN {<< "source", "lowShelf" >>, << "lowShelf", "midPeaking" >>,
                     << "midPeaking", "highShelf" >>} ELSE {})
          \cup (IF limiter THEN {<< afterEq, "compressor" >>,
                                 << "compressor", "limiter" >>} ELSE {})
          \cup (IF p.gainNode THEN {<< afterLimiter, "gain" >>} ELSE {})
          \cup (IF p.analyserNode THEN {<< currentNode, "analyser" >>} ELSE {})
          \cup {<< currentNode, "destination" >>}
  IN IF ~p.sourceNode \/ p.audioContext = NoContext THEN w
     ELSE [w EXCEPT !.webAudio.edges = @ \cup connections]

\* setBypass whose else branch disconnects the source node and stops there.
setBypassWithoutReconnect(w, bypass) ==
  IF ~w.processor.sourceNode \/ w.processor.audioContext = NoContext THEN w
  ELSE IF bypass
  THEN [Disconnect(w, {"source"}) EXCEPT
          !.webAudio.edges = @ \cup {<< "source", "destination" >>}]
  ELSE Disconnect(w, {"source"})

setBypass(w, bypass) ==
  IF ~w.processor.sourceNode \/ w.processor.audioContext = NoContext THEN w
  ELSE IF bypass
  THEN [Disconnect(w, {"source"}) EXCEPT
          !.webAudio.edges = @ \cup {<< "source", "destination" >>}]
  ELSE connectProcessingChain(Disconnect(w, {"source"}))

\* A parameter written through .value, and one set by setTargetAtTime.
Written(value) == [value |-> value, smoothed |-> FALSE]

Scheduled(target) == [value |-> target, smoothed |-> TRUE]

\* The gain parameters of the nodes just created: the gain of a new
\* GainNode is 1, and setupEqualizer writes the configured gains into the
\* three bands when the equalizer is enabled.
NodeParams(config) ==
  [param \in {"gain"} \cup (IF config.enableEQ THEN Bands ELSE {}) |->
     IF param = "gain" THEN Written(1)
     ELSE Written(config.eqSettings[param])]

\* updateEQ(settings): settings gives a gain to some of the bands.
updateEQ(w, settings) ==
  LET p == w.processor
      given == IF p.eqNodes THEN DOMAIN settings ELSE {}
  IN IF ~p.isInitialized THEN w
     ELSE [w EXCEPT
             !.processor.params =
                [param \in DOMAIN @ |->
                   IF param \in given THEN Written(settings[param])
                   ELSE @[param]],
             !.processor.config.eqSettings =
                [band \in Bands |->
                   IF band \in given THEN settings[band] ELSE @[band]]]

\* setGain(gain): cancelScheduledValues and setTargetAtTime on the gain of
\* the gain node.
setGain(w, gain) ==
  IF w.processor.gainNode
  THEN [w EXCEPT !.processor.params["gain"] = Scheduled(gain)]
  ELSE w

\* initializeProcessing from createMediaElementSource on: reached at once
\* when the new context is running, after the await otherwise.  It uses
\* this.audioContext as it is at that moment.  The platform refuses a media
\* element that a source node has captured before with an InvalidStateError
\* whose message, depending on the browser, includes 'already connected' or
\* does not.
createSourceAndChain(w, includesAlreadyConnected) ==
  LET p == w.processor
  IN IF p.audioContext = NoContext
     THEN Returned(dispose(w), "false")
     ELSE IF w.webAudio.captured # NoContext \/ w.webAudio.foreign
     THEN IF includesAlreadyConnected
          THEN Returned([Close(w, p.audioContext) EXCEPT
                           !.processor.audioContext = NoContext],
                        "alreadyConnected")
          ELSE Returned(dispose(w), "alreadyConnected")
     ELSE LET w1 == [w EXCEPT
                       !.webAudio.captured = p.audioContext,
                       !.processor.sourceNode = TRUE,
                       !.processor.gainNode = TRUE,
                       !.processor.analyserNode = TRUE,
                       !.processor.eqNodes = p.config.enableEQ,
                       !.processor.compressorNode = p.config.enableLimiter,
                       !.processor.limiterNode = p.config.enableLimiter,
                       !.processor.params = NodeParams(p.config)]
          IN Returned([connectProcessingChain(w1) EXCEPT
                         !.processor.isInitialized = TRUE], "true")

\* initializeProcessing up to its await: a context created without a user
\* gesture is suspended, and the call then waits for resume().
initializeProcessing(w, suspended, includesAlreadyConnected) ==
  LET w1 == IF w.processor.isInitialized THEN dispose(w) ELSE w
      context == Len(w1.webAudio.contexts) + 1
      w2 == [w1 EXCEPT
               !.webAudio.contexts =
                  Append(@, IF suspended THEN "suspended" ELSE "running"),
               !.processor.audioContext = context]
  IN IF ~w1.webAudio.supported THEN Returned(w1, "false")
     ELSE IF suspended
     THEN Returned([w2 EXCEPT !.awaiting = Append(@, context)], "pending")
     ELSE createSourceAndChain(w2, includesAlreadyConnected)

\* The call that waits at position i goes on: resume() of the context it
\* created is rejected when that context was closed meanwhile, which the
\* outer catch answers with dispose(); otherwise the context runs.
resumed(w, i, includesAlreadyConnected) ==
  LET context == w.awaiting[i]
      w1 == [w EXCEPT !.awaiting = SubSeq(@, 1, i - 1)
                                     \o SubSeq(@, i + 1, Len(@))]
  IN IF w.webAudio.contexts[context] = "closed"
     THEN Returned(dispose(w1), "false")
     ELSE createSourceAndChain(
            [w1 EXCEPT !.webAudio.contexts[context] = "running"],
            includesAlreadyConnected)

CommitProcessor(w, name) ==
  /\ processor' = w.processor
  /\ webAudio' = w.webAudio
  /\ awaiting' = w.awaiting
  /\ op' = [name |-> name, out |-> w.ret]
  /\ UNCHANGED << currentSong, isPlaying, queue, queueIndex, activePlaylist,
                  repeatMode, isShuffle, error, currentAudioInfo,
                  queueRef, queueIndexRef, activePlaylistRef,
                  playPauseTimeoutRef, timers, audioPaused, audioSrc,
                  audioTime, audioError, playPromise, mediaEvents,
                  microtasks, sampleDownloadUrls, result, resilience,
                  home >>

InitializeProcessing(suspended, includesAlreadyConnected) ==
  /\ Len(webAudio.contexts) < MaxContexts
  /\ CommitProcessor(initializeProcessing(World, suspended,
                                          includesAlreadyConnected),
                     "initializeProcessing")

Resumed(i, includesAlreadyConnected) ==
  /\ i \in 1 .. Len(awaiting)
  /\ CommitProcessor(resumed(World, i, includesAlreadyConnected),
                     "initializeProcessing")

Dispose == CommitProcessor(dispose(World), "dispose")

SetBypass(bypass) == CommitProcessor(setBypass(World, bypass), "setBypass")

\* The gains a caller passes, in half decibels for the bands.
GainInputs == {3}

EqSettings == UNION {[given -> GainInputs] : given \in SUBSET Bands}

UpdateEQ(settings) ==
  CommitProcessor(Returned(updateEQ(World, settings), "undefined"), "updateEQ")

SetGain(gain) ==
  CommitProcessor(Returned(setGain(World, gain), "undefined"), "setGain")

\* Somebody else's graph captures the media element and plays it.
ForeignCapture ==
  /\ webAudio.captured = NoContext
  /\ ~webAudio.foreign
  /\ CommitProcessor([World EXCEPT !.webAudio.foreign = TRUE], "foreign")

Configs ==
  [enableEQ : BOOLEAN, enableLimiter : BOOLEAN,
   eqSettings : {DefaultEqSettings}]

InitProcessor ==
  /\ InitProvider
  /\ sampleDownloadUrls = << >>
  /\ result = << >>
  /\ processor \in {NewProcessor(config) : config \in Configs}
  /\ webAudio \in {NewWebAudio(supported) : supported \in BOOLEAN}
  /\ awaiting = << >>
  /\ InitResilience
  /\ InitHome

NextProcessor ==
  \/ \E suspended, includesAlreadyConnected \in BOOLEAN :
       InitializeProcessing(suspended, includesAlreadyConnected)
  \/ \E i \in 1 .. MaxContexts, includesAlreadyConnected \in BOOLEAN :
       Resumed(i, includesAlreadyConnected)
  \/ Dispose
  \/ \E bypass \in BOOLEAN : SetBypass(bypass)
  \/ \E settings \in EqSettings : UpdateEQ(settings)
  \/ \E gain \in GainInputs : SetGain(gain)
  \/ ForeignCapture

SpecProcessor == InitProcessor /\ [][NextProcessor]_vars

\* ---------------------------------------------------------- rate limiting
\* The RateLimitManager and makeRateLimitedCall.  Time is counted in ticks:
\* the source has DEFAULT_DELAY = 500 ms, MAX_CALLS_PER_MINUTE = 60 and
\* RESET_INTERVAL = 60 000 ms; the values below keep their order (the
\* spacing is shorter than the window, and the cap can be reached inside
\* one window) at a size that can be enumerated.  The map is followed for
\* one endpoint: no method reads or writes the entry of another key.
DEFAULT_DELAY == 2
MAX_CALLS_PER_MINUTE == 3
RESET_INTERVAL == 4

\* Date.now() is followed up to MaxTime, and beyond it only while a call
\* waits for a timer.
MaxTime == 9

\* The calls of makeRateLimitedCall that are followed, the largest
\* maxRetries (the default of the source) and the largest retryDelay.
MaxCalls == 1
MaxRetries == 2
MaxRetryDelay == 2

\* The calls of makeRateLimitedCall that are in flight at once where their
\* interleaving is followed.
MaxConcurrent == 3

Endpoints == {"search/songs"}

RateLimitStatus == 403
OtherStatus == 500
NoResponse == 0

Max(a, b) == IF a >= b THEN a ELSE b

\* this.limits.get(endpoint) is defined.
Has(l, endpoint) == endpoint \in DOMAIN l

\* this.limits.set(endpoint, info)
Set(l, endpoint, info) ==
  [e \in DOMAIN l \cup {endpoint} |-> IF e = endpoint THEN info ELSE l[e]]

FirstCall(t) ==
  [lastCall |-> t, callCount |-> 1, resetTime |-> t + RESET_INTERVAL]

\* shouldDelay on a cap that is reached one call late.
shouldDelayPastCap(l, endpoint, t) ==
  IF ~Has(l, endpoint) \/ t > l[endpoint].resetTime
  THEN [limits |-> Set(l, endpoint, FirstCall(t)), delay |-> 0]
  ELSE IF l[endpoint].callCount > MAX_CALLS_PER_MINUTE
  THEN [limits |-> l, delay |-> l[endpoint].resetTime - t]
  ELSE [limits |-> [l EXCEPT ![endpoint].callCount = @ + 1,
                             ![endpoint].lastCall = t],
        delay |-> Max(0, DEFAULT_DELAY - (t - l[endpoint].lastCall))]

\* shouldDelay that, after the window has expired, starts a new window and
\* goes on counting where it was.
shouldDelayKeepsCount(l, endpoint, t) ==
  IF ~Has(l, endpoint)
  THEN [limits |-> Set(l, endpoint, FirstCall(t)), delay |-> 0]
  ELSE IF t > l[endpoint].resetTime
  THEN [limits |-> [l EXCEPT ![endpoint].resetTime = t + RESET_INTERVAL,
                             ![endpoint].lastCall = t],
        delay |-> 0]
  ELSE IF l[endpoint].callCount >= MAX_CALLS_PER_MINUTE
  THEN [limits |-> l, delay |-> l[endpoint].resetTime - t]
  ELSE [limits |-> [l EXCEPT ![endpoint].callCount = @ + 1,
                             ![endpoint].lastCall = t],
        delay |-> Max(0, DEFAULT_DELAY - (t - l[endpoint].lastCall))]

\* shouldDelay(endpoint) at time t: the map it leaves and the delay it
\* returns.
shouldDelay(l, endpoint, t) ==
  IF ~Has(l, endpoint)
  THEN [limits |-> Set(l, endpoint, FirstCall(t)), delay |-> 0]
  ELSE IF t > l[endpoint].resetTime
  THEN [limits |-> [l EXCEPT ![endpoint] = FirstCall(t)], delay |-> 0]
  ELSE IF l[endpoint].callCount >= MAX_CALLS_PER_MINUTE
  THEN [limits |-> l, delay |-> l[endpoint].resetTime - t]
  ELSE [limits |-> [l EXCEPT ![endpoint].callCount = @ + 1,
                             ![endpoint].lastCall = t],
        delay |-> Max(0, DEFAULT_DELAY - (t - l[endpoint].lastCall))]

\* recordFailure that treats every status as the rate limit one.
recordFailureAnyStatus(l, endpoint, statusCode, t) ==
  IF Has(l, endpoint)
  THEN [l EXCEPT ![endpoint].resetTime = t + RESET_INTERVAL * 2,
                 ![endpoint].callCount = MAX_CALLS_PER_MINUTE]
  ELSE l

\* recordFailure(endpoint, statusCode) at time t.
recordFailure(l, endpoint, statusCode, t) ==
  IF statusCode = RateLimitStatus /\ Has(l, endpoint)
  THEN [l EXCEPT ![endpoint].resetTime = t + RESET_INTERVAL * 2,
                 ![endpoint].callCount = MAX_CALLS_PER_MINUTE]
  ELSE l

\* getStatus(endpoint) at time t.
getStatus(l, endpoint, t) ==
  IF ~Has(l, endpoint)
  THEN [callCount |-> 0, timeUntilReset |-> 0, isLimited |-> FALSE]
  ELSE [callCount |-> l[endpoint].callCount,
        timeUntilReset |-> Max(0, l[endpoint].resetTime - t),
        isLimited |-> l[endpoint].callCount >= MAX_CALLS_PER_MINUTE
                        /\ Max(0, l[endpoint].resetTime - t) > 0]

\* The times, within the last RESET_INTERVAL, at which shouldDelay returned
\* 0 for the endpoint; MAX_CALLS_PER_MINUTE + 1 of them are kept.
Recent(times, t) == SelectSeq(times, LAMBDA x : x > t - RESET_INTERVAL)

Latest(times) ==
  IF Len(times) > MAX_CALLS_PER_MINUTE + 1 THEN Tail(times) ELSE times

Admit(a, endpoint, delay, t) ==
  IF delay > 0 THEN a
  ELSE Set(a, endpoint,
           Latest(Append(IF Has(a, endpoint) THEN a[endpoint] ELSE << >>, t)))

CommitResilience(l, a, c, name, out) ==
  /\ limits' = l
  /\ admitted' = a
  /\ calls' = c
  /\ op' = [name |-> name, out |-> out]
  /\ UNCHANGED << currentSong, isPlaying, queue, queueIndex, activePlaylist,
                  repeatMode, isShuffle, error, currentAudioInfo,
                  queueRef, queueIndexRef, activePlaylistRef,
                  playPauseTimeoutRef, timers, audioPaused, audioSrc,
                  audioTime, audioError, playPromise, mediaEvents,
                  microtasks, sampleDownloadUrls, result,
                  processor, webAudio, awaiting, now, home >>

\* rateLimitManager.shouldDelay(endpoint), called by any module.
ShouldDelay(endpoint) ==
  CommitResilience(shouldDelay(limits, endpoint, now).limits,
                   Admit(admitted, endpoint,
                         shouldDelay(limits, endpoint, now).delay, now),
                   calls,
                   "shouldDelay",
                   [endpoint |-> endpoint,
                    delay |-> shouldDelay(limits, endpoint, now).delay])

\* rateLimitManager.recordFailure(endpoint, statusCode)
RecordFailure(endpoint, statusCode) ==
  CommitResilience(recordFailure(limits, endpoint, statusCode, now),
                   admitted, calls, "recordFailure",
                   [endpoint |-> endpoint, statusCode |-> statusCode])

\* rateLimitManager.getStatus(endpoint)
GetStatus(endpoint) ==
  CommitResilience(limits, admitted, calls, "getStatus",
                   getStatus(limits, endpoint, now))

\* rateLimitManager.clear(): all rate limit data go, and with them what is
\* remembered of the calls admitted.
Clear == CommitResilience(<< >>, << >>, calls, "clear", "undefined")

\* A millisecond tick of the clock.
Advance ==
  /\ now' = now + 1
  /\ admitted' = [e \in DOMAIN admitted |-> Recent(admitted[e], now + 1)]
  /\ UNCHANGED << currentSong, isPlaying, queue, queueIndex, activePlaylist,
                  repeatMode, isShuffle, error, currentAudioInfo,
                  queueRef, queueIndexRef, activePlaylistRef,
                  playPauseTimeoutRef, timers, audioPaused, audioSrc,
                  audioTime, audioError, playPromise, mediaEvents,
                  microtasks, op, sampleDownloadUrls, result,
                  processor, webAudio, awaiting, limits, calls, home >>

ClockTick ==
  /\ now < MaxTime
  /\ Advance

StatusCodes == {RateLimitStatus, OtherStatus}

NextRateLimit ==
  \/ \E endpoint \in Endpoints : ShouldDelay(endpoint)
  \/ \E endpoint \in Endpoints, statusCode \in StatusCodes :
       RecordFailure(endpoint, statusCode)
  \/ \E endpoint \in Endpoints : GetStatus(endpoint)
  \/ Clear
  \/ ClockTick

SpecRateLimit == Init /\ [][NextRateLimit]_vars

\* ------------------------------------------------- makeRateLimitedCall
\* A call of makeRateLimitedCall: its arguments, the loop variable attempt,
\* where it waits (pc), the timer it waits for, how often it has invoked
\* apiCall, whether the cap was reached when shouldDelay last answered it
\* (capped), and how it has settled.  Where calls in flight at once are
\* followed, sinceInvoked counts the ticks since the call last invoked
\* apiCall, up to DEFAULT_DELAY.  A result or an error of apiCall is
\* known by the attempt that produced it.
NoTimeout == [armed |-> 0, delay |-> 0]

Pending == [kind |-> "pending", error |-> "none", attempt |-> Undefined,
            status |-> NoResponse]

NewCall(endpoint, maxRetries, retryDelay) ==
  [endpoint |-> endpoint, maxRetries |-> maxRetries,
   retryDelay |-> retryDelay, attempt |-> 0, pc |-> "start",
   timeout |-> NoTimeout, invoked |-> 0, sinceInvoked |-> 0,
   capped |-> FALSE, settled |-> Pending]

\* return result
ReturnResult(call) ==
  [call EXCEPT !.pc = "returned",
               !.settled = [kind |-> "returned", error |-> "none",
                            attempt |-> call.attempt, status |-> NoResponse]]

\* throw error, the error apiCall failed with
ThrowError(call, status) ==
  [call EXCEPT !.pc = "threw",
               !.settled = [kind |-> "threw", error |-> "apiCall",
                            attempt |-> call.attempt, status |-> status]]

\* throw new Error(`Failed to complete ${endpoint} after ${maxRetries}
\* retries`)
ThrowFailedToComplete(call) ==
  [call EXCEPT !.pc = "threw",
               !.settled = [kind |-> "threw", error |-> "Failed to complete",
                            attempt |-> Undefined, status |-> NoResponse]]

\* await new Promise(resolve => setTimeout(resolve, delay))
Wait(call, pc, delay, t) ==
  [call EXCEPT !.pc = pc, !.timeout = [armed |-> t, delay |-> delay]]

\* await apiCall(): apiCall is invoked and its promise awaited.
InvokeApiCall(call) ==
  [call EXCEPT !.pc = "apiCall", !.invoked = @ + 1, !.sinceInvoked = 0,
               !.timeout = NoTimeout]

\* The third branch of shouldDelay is the one taken: the window is open and
\* the cap reached.
AtCap(l, endpoint, t) ==
  /\ Has(l, endpoint)
  /\ t <= l[endpoint].resetTime
  /\ l[endpoint].callCount >= MAX_CALLS_PER_MINUTE

\* One pass of the loop from its head to the first await, given the delay
\* shouldDelay returned.
Attempt(call, delay, t) ==
  IF delay > 0 THEN Wait(call, "delay", delay, t) ELSE InvokeApiCall(call)

\* The loop head: the map and the call after it.
loopHead(l, call, t) ==
  IF call.attempt <= call.maxRetries
  THEN [limits |-> shouldDelay(l, call.endpoint, t).limits,
        delay |-> shouldDelay(l, call.endpoint, t).delay,
        call |-> Attempt([call EXCEPT !.capped = AtCap(l, call.endpoint, t)],
                         shouldDelay(l, call.endpoint, t).delay, t)]
  ELSE [limits |-> l, delay |-> Undefined,
        call |-> ThrowFailedToComplete(call)]

\* The catch block with a backoff that does not grow with the attempts.
caughtConstantBackoff(l, call, status, t) ==
  [limits |-> IF status # NoResponse
              THEN recordFailure(l, call.endpoint, status, t) ELSE l,
   delay |-> Undefined,
   call |-> IF status = RateLimitStatus /\ call.attempt < call.maxRetries
            THEN Wait(call, "backoff", call.retryDelay, t)
            ELSE ThrowError(call, status)]

\* The catch block for an error with the given response status (NoResponse
\* for an error without one).
caught(l, call, status, t) ==
  [limits |-> IF status # NoResponse
              THEN recordFailure(l, call.endpoint, status, t) ELSE l,
   delay |-> Undefined,
   call |-> IF status = RateLimitStatus /\ call.attempt < call.maxRetries
            THEN Wait(call, "backoff", call.retryDelay * (call.attempt + 1), t)
            ELSE ThrowError(call, status)]

\* The timer of the call is due.
Due(call) == now >= call.timeout.armed + call.timeout.delay

Waiting(call) == call.pc \in {"delay", "backoff"}

CommitCall(i, r, name, out) ==
  CommitResilience(r.limits,
                   IF r.delay = 0
                   THEN Admit(admitted, r.call.endpoint, 0, now) ELSE admitted,
                   [calls EXCEPT ![i] = r.call],
                   name, [call |-> i, out |-> out])

\* makeRateLimitedCall(endpoint, apiCall, { maxRetries, retryDelay }) up to
\* its first await.
StartCall(endpoint, maxRetries, retryDelay) ==
     CommitResilience(
       loopHead(limits, NewCall(endpoint, maxRetries, retryDelay), now).limits,
       IF loopHead(limits, NewCall(endpoint, maxRetries, retryDelay),
                   now).delay = 0
       THEN Admit(admitted, endpoint, 0, now) ELSE admitted,
       Append(calls,
              loopHead(limits, NewCall(endpoint, maxRetries, retryDelay),
                       now).call),
       "makeRateLimitedCall", [call |-> Len(calls) + 1, out |-> "called"])

MakeRateLimitedCall(endpoint, maxRetries, retryDelay) ==
  /\ Len(calls) < MaxCalls
  /\ StartCall(endpoint, maxRetries, retryDelay)

\* The delay shouldDelay asked for is over: apiCall is invoked.
DelayElapsed(i) ==
  /\ i \in 1 .. Len(calls)
  /\ calls[i].pc = "delay"
  /\ Due(calls[i])
  /\ CommitCall(i, [limits |-> limits, delay |-> Undefined,
                    call |-> InvokeApiCall(calls[i])],
                "delayElapsed", "invoked")

\* The promise of apiCall is fulfilled.
ApiCallFulfilled(i) ==
  /\ i \in 1 .. Len(calls)
  /\ calls[i].pc = "apiCall"
  /\ CommitCall(i, [limits |-> limits, delay |-> Undefined,
                    call |-> ReturnResult(calls[i])],
                "apiCallFulfilled", "result")

\* The promise of apiCall is rejected, with an error that carries a response
\* status or with one that does not.
ApiCallRejected(i, status) ==
  /\ i \in 1 .. Len(calls)
  /\ calls[i].pc = "apiCall"
  /\ CommitCall(i, caught(limits, calls[i], status, now),
                "apiCallRejected", status)

\* The backoff wait is over: attempt++ and the loop head again.
BackoffElapsed(i) ==
  /\ i \in 1 .. Len(calls)
  /\ calls[i].pc = "backoff"
  /\ Due(calls[i])
  /\ CommitCall(i, loopHead(limits, [calls[i] EXCEPT !.attempt = @ + 1,
                                                    !.timeout = NoTimeout],
                            now),
                "backoffElapsed", "continue")

\* The clock goes on while it is watched or a call waits for a timer.
CallTick ==
  /\ \/ now < MaxTime
     \/ \E i \in 1 .. Len(calls) : Waiting(calls[i]) /\ ~Due(calls[i])
  /\ Advance

\* The options a caller passes: maxRetries from -1 on, retryDelay from 1 on.
RetryOptions == [maxRetries : -1 .. MaxRetries, retryDelay : 1 .. MaxRetryDelay]

Rejections == {RateLimitStatus, OtherStatus, NoResponse}

NextCall ==
  \/ \E endpoint \in Endpoints, options \in RetryOptions :
       MakeRateLimitedCall(endpoint, options.maxRetries, options.retryDelay)
  \/ \E i \in 1 .. MaxCalls : DelayElapsed(i)
  \/ \E i \in 1 .. MaxCalls : ApiCallFulfilled(i)
  \/ \E i \in 1 .. MaxCalls, status \in Rejections : ApiCallRejected(i, status)
  \/ \E i \in 1 .. MaxCalls : BackoffElapsed(i)
  \/ \E endpoint \in Endpoints : now < MaxTime /\ ShouldDelay(endpoint)
  \/ CallTick

SpecCall == Init /\ [][NextCall]_vars

\* A timer that is due fires, the clock goes on, and apiCall settles.
LiveSpecCall ==
  /\ SpecCall
  /\ WF_vars(CallTick)
  /\ \A i \in 1 .. MaxCalls :
       /\ WF_vars(DelayElapsed(i))
       /\ WF_vars(BackoffElapsed(i))
       /\ WF_vars(ApiCallFulfilled(i)
                    \/ \E status \in Rejections : ApiCallRejected(i, status))

\* Calls in flight at once while the endpoint stays under its cap: each is
\* made with the options left at their defaults (maxRetries = 2 and
\* retryDelay = 1000 ms in the source), and apiCall succeeds or fails with
\* an error other than the rate limit one, which would put the endpoint at
\* its cap.
DefaultOptions == [maxRetries |-> MaxRetries, retryDelay |-> MaxRetryDelay]

MakeConcurrentCall(endpoint) ==
  /\ Len(calls) < MaxConcurrent
  /\ StartCall(endpoint, DefaultOptions.maxRetries, DefaultOptions.retryDelay)

\* A tick of the clock that is also counted by the calls that have invoked
\* apiCall.
Aged(call) ==
  IF call.invoked > 0 /\ call.sinceInvoked < DEFAULT_DELAY
  THEN [call EXCEPT !.sinceInvoked = @ + 1]
  ELSE call

ConcurrentTick ==
  /\ \/ now < MaxTime
     \/ \E i \in 1 .. Len(calls) : Waiting(calls[i]) /\ ~Due(calls[i])
  /\ now' = now + 1
  /\ admitted' = [e \in DOMAIN admitted |-> Recent(admitted[e], now + 1)]
  /\ calls' = [i \in 1 .. Len(calls) |-> Aged(calls[i])]
  /\ UNCHANGED << currentSong, isPlaying, queue, queueIndex, activePlaylist,
                  repeatMode, isShuffle, error, currentAudioInfo,
                  queueRef, queueIndexRef, activePlaylistRef,
                  playPauseTimeoutRef, timers, audioPaused, audioSrc,
                  audioTime, audioError, playPromise, mediaEvents,
                  microtasks, op, sampleDownloadUrls, result,
                  processor, webAudio, awaiting, limits, home >>

NextConcurrent ==
  \/ \E endpoint \in Endpoints : MakeConcurrentCall(endpoint)
  \/ \E i \in 1 .. MaxConcurrent : DelayElapsed(i)
  \/ \E i \in 1 .. MaxConcurrent : ApiCallFulfilled(i)
  \/ \E i \in 1 .. MaxConcurrent, status \in Rejections \ {RateLimitStatus} :
       ApiCallRejected(i, status)
  \/ ConcurrentTick

SpecConcurrent == Init /\ [][NextConcurrent]_vars

\* --------------------------------------------------------------- HomeView
\* The recently played list of HomeView, the view routed at "/": a state of
\* the view, saved to the browser's store under 'recentlyPlayed'.  A list
\* entry is a snapshot of a track, known here by the track's id.  The source
\* keeps 50 entries; the model keeps MaxRecentlyPlayed of the four tracks.
MaxRecentlyPlayed == 3

Without(list, id) == SelectSeq(list, LAMBDA song : song # id)

Slice(list, n) == SubSeq(list, 1, IF Len(list) < n THEN Len(list) ELSE n)

\* The updater of the save effect: the current song first, then the others,
\* cut at the cap.
updated(prev, normalizedCurrentSong) ==
  Slice(<< normalizedCurrentSong >> \o Without(prev, normalizedCurrentSong),
        MaxRecentlyPlayed)

\* useEffect(..., [currentSong]) of HomeView, given the list in the view's
\* state: the list it sets and saves.
saveRecentlyPlayed(prev, song) ==
  IF song = NoSong THEN prev ELSE updated(prev, song)

\* HomeView is rendered: its mount effect reads the store and, if it finds
\* a list, takes it as the state, and otherwise asks for trending songs;
\* the save effect then runs for the song that is current.
MountHomeView ==
  /\ homeView = "unmounted"
  /\ homeView' = "mounted"
  /\ recentlyPlayed' = saveRecentlyPlayed(localStorage, currentSong)
  /\ localStorage' = saveRecentlyPlayed(localStorage, currentSong)
  /\ trending' = IF localStorage = << >> THEN "pending" ELSE "idle"
  /\ UNCHANGED << currentSong, isPlaying, queue, queueIndex, activePlaylist,
                  repeatMode, isShuffle, error, currentAudioInfo,
                  queueRef, queueIndexRef, activePlaylistRef,
                  playPauseTimeoutRef, timers, audioPaused, audioSrc,
                  audioTime, audioError, playPromise, mediaEvents,
                  microtasks, op, sampleDownloadUrls, result,
                  processor, webAudio, awaiting, resilience, played >>

\* The user leaves "/": the view's state goes, and an answer to its request
\* for trending songs finds no view.
UnmountHomeView ==
  /\ homeView = "mounted"
  /\ homeView' = "unmounted"
  /\ recentlyPlayed' = << >>
  /\ trending' = "idle"
  /\ UNCHANGED << currentSong, isPlaying, queue, queueIndex, activePlaylist,
                  repeatMode, isShuffle, error, currentAudioInfo,
                  queueRef, queueIndexRef, activePlaylistRef,
                  playPauseTimeoutRef, timers, audioPaused, audioSrc,
                  audioTime, audioError, playPromise, mediaEvents,
                  microtasks, op, sampleDownloadUrls, result,
                  processor, webAudio, awaiting, resilience,
                  localStorage, played >>

\* getTrendingSongs answers: a non-empty answer replaces the view's list as
\* suggestions; the store is not written.
SuggestionsArrive(suggestions) ==
  /\ homeView = "mounted"
  /\ trending = "pending"
  /\ trending' = "idle"
  /\ recentlyPlayed' =
       IF Len(suggestions) > 0 THEN suggestions ELSE recentlyPlayed
  /\ UNCHANGED << currentSong, isPlaying, queue, queueIndex, activePlaylist,
                  repeatMode, isShuffle, error, currentAudioInfo,
                  queueRef, queueIndexRef, activePlaylistRef,
                  playPauseTimeoutRef, timers, audioPaused, audioSrc,
                  audioTime, audioError, playPromise, mediaEvents,
                  microtasks, op, sampleDownloadUrls, result,
                  processor, webAudio, awaiting, resilience,
                  homeView, localStorage, played >>

\* The Clear button of the recently played section.
ClearRecentlyPlayed ==
  /\ homeView = "mounted"
  /\ Len(recentlyPlayed) > 0
  /\ recentlyPlayed' = << >>
  /\ localStorage' = << >>
  /\ UNCHANGED << currentSong, isPlaying, queue, queueIndex, activePlaylist,
                  repeatMode, isShuffle, error, currentAudioInfo,
                  queueRef, queueIndexRef, activePlaylistRef,
                  playPauseTimeoutRef, timers, audioPaused, audioSrc,
                  audioTime, audioError, playPromise, mediaEvents,
                  microtasks, op, sampleDownloadUrls, result,
                  processor, webAudio, awaiting, resilience,
                  homeView, trending, played >>

\* What follows a commit of the provider in HomeView: if the view is
\* rendered and the current song has changed, the save effect runs.
HomeViewFollows ==
  /\ played' = IF currentSong' # currentSong
               THEN << currentSong' >> \o Without(played, currentSong')
               ELSE played
  /\ recentlyPlayed' =
       IF homeView = "mounted" /\ currentSong' # currentSong
       THEN saveRecentlyPlayed(recentlyPlayed, currentSong')
       ELSE recentlyPlayed
  /\ localStorage' =
       IF homeView = "mounted" /\ currentSong' # currentSong
       THEN saveRecentlyPlayed(recentlyPlayed, currentSong')
       ELSE localStorage
  /\ UNCHANGED << sampleDownloadUrls, result, processor, webAudio, awaiting,
                  resilience, homeView, trending >>

\* playSong, called from any view, and what HomeView makes of it.
PlaySongAnywhere(song, allowed) ==
  /\ microtasks = << >>
  /\ CommitProvider(playSong(Cur, song, allowed))
  /\ HomeViewFollows

\* The answers of getTrendingSongs: none, or two trending songs.
TrendingAnswers == {<< >>, << 3, 2 >>}

NextHome ==
  \/ MountHomeView
  \/ UnmountHomeView
  \/ \E suggestions \in TrendingAnswers : SuggestionsArrive(suggestions)
  \/ ClearRecentlyPlayed
  \/ \E song \in Tracks, allowed \in BOOLEAN : PlaySongAnywhere(song, allowed)

SpecHome == Init /\ [][NextHome]_vars

\* ------------------------------------------------------------------ claims
\* The controller finds an audio source for the track: a candidate with a
\* non-blank link or, for a track without candidates, a non-blank url.
HasSource(t) ==
  IF DownloadUrl(t) # << >>
  THEN selectOptimalAudioSource(DownloadUrl(t)).selectedUrl # NoUrl
  ELSE Url(t) # NoUrl

AllValid(playlist) == \A i \in 1 .. Len(playlist) : HasIdAndName(playlist[i])

InRange(index, playlist) == 0 <= index /\ index < Len(playlist)

SetQueueAndPlayStarted ==
  op = [name |-> "setPlaylistAndPlay", out |-> "started"]

\* After an accepted setQueueAndPlay the flag is raised, the platform has
\* reported an error, or the user has called something else meanwhile.
PlayingOrErrorOrOtherCall ==
  \/ isPlaying
  \/ error # NoError
  \/ op.name \in {"playSong", "playNext", "playPrevious", "handleEnded"}
  \/ op.name = "setPlaylistAndPlay" /\ op.out # "started"

\* The inputs C1 is about: a non-empty list of structurally valid tracks
\* and a start index in range.
ValidCalls ==
  {c \in TrackLists \X (-1 .. MaxLen) :
     Len(c[1]) > 0 /\ AllValid(c[1]) /\ InRange(c[2], c[1])}

\* The state setPlaylistAndPlay(playlist, index) commits when it is called
\* in the current state (a handler runs when no continuation is waiting).
AfterSetQueueAndPlay(c) == SyncRefs(setPlaylistAndPlay(Cur, c[1], c[2], TRUE))

\* C1 as stated: for every non-empty list of structurally valid tracks and
\* every start index in range, setQueueAndPlay(tracks, index) leaves
\* currentTrack = tracks[index], queue = tracks and cursor = index, and
\* isPlaying eventually becomes true unless the platform reports an error.
C1_AsStated ==
  /\ [](microtasks = << >> =>
          \A c \in ValidCalls :
             /\ AfterSetQueueAndPlay(c).currentSong = c[1][c[2] + 1]
             /\ AfterSetQueueAndPlay(c).queue = c[1]
             /\ AfterSetQueueAndPlay(c).queueIndex = c[2])
  /\ (SetQueueAndPlayStarted ~> PlayingOrErrorOrOtherCall)

\* C1 amended: for every such call whose start track has a usable audio
\* source, setQueueAndPlay leaves currentTrack = tracks[index], queue =
\* tracks and cursor = index, with the media element loaded with that
\* track's url and asked to play, and isPlaying eventually becomes true
\* unless the platform reports an error; for a start track without a source
\* the queue and the cursor are committed and currentTrack is left as it was.
C1_SetQueueAndPlay ==
  /\ [](microtasks = << >> =>
          \A c \in ValidCalls :
             LET t == AfterSetQueueAndPlay(c)
                 song == c[1][c[2] + 1]
             IN /\ t.queue = c[1]
                /\ t.queueIndex = c[2]
                /\ t.activePlaylist.tracks = c[1]
                /\ t.activePlaylist.currentIndex = c[2]
                /\ IF HasSource(song)
                   THEN /\ t.currentSong = song
                        /\ t.audioSrc = t.currentAudioInfo.selectedUrl
                        /\ t.audioSrc # NoUrl
                        /\ ~t.audioPaused
                        /\ t.playPromise.owner = "playSong"
                        /\ t.op.out = "started"
                   ELSE /\ t.currentSong = currentSong
                        /\ t.audioSrc = audioSrc
                        /\ t.op.out = "noSource")
  /\ (SetQueueAndPlayStarted ~> PlayingOrErrorOrOtherCall)

\* setQueueAndPlay has just started the second track of a longer list and
\* the flag is not yet raised.
C1_Witness ==
  /\ SetQueueAndPlayStarted
  /\ Len(queue) > 1
  /\ queueIndex = 1
  /\ currentSong = queue[queueIndex + 1]
  /\ ~isPlaying

\* C2: after any sequence of setQueueAndPlay, play, next, previous and
\* track-ended events the cursor of a non-empty queue is a valid index of
\* it, and next() on an empty queue stops playback (flag down, element
\* paused, position 0) instead of resolving an index.
C2_CursorInRange ==
  /\ Len(queue) > 0 => (0 <= queueIndex /\ queueIndex < Len(queue))
  /\ (op.name = "playNext" /\ queue = << >>) =>
       (op.out = "empty" /\ ~isPlaying /\ audioPaused /\ audioTime = 0)

\* The cursor on the last index of a full queue after previous() wrapped
\* from index 0.
C2_Witness ==
  /\ op = [name |-> "playPrevious", out |-> "started"]
  /\ repeatMode = "all" /\ ~isShuffle
  /\ Len(queue) = MaxLen
  /\ queueIndex = Len(queue) - 1

\* C3 as stated: whenever an ActivePlaylist exists its track list equals
\* the queue's track list, after any sequence of operations available to
\* callers of the playback state.
C3_ActivePlaylistMatchesQueue ==
  activePlaylist.present => activePlaylist.tracks = queue

\* A step of next() called by the user.
NextCalled == op'.name = "playNext"

\* C4 as stated: with shuffle off and repeatMode all, next() on a non-empty
\* queue moves the cursor to the following index, from the last index to 0,
\* and never fails or stops playback: the track at the new index is started.
C4_AsStated ==
  [][(NextCalled /\ ~isShuffle /\ repeatMode = "all" /\ Len(queue) > 0) =>
       /\ queueIndex' = (queueIndex + 1) % Len(queue)
       /\ op'.out = "started"
       /\ error' = NoError
       /\ ~audioPaused']_vars

\* C4 amended: with shuffle off and repeatMode all, next() on a non-empty
\* queue moves the cursor to (cursor + 1) mod length, so that repeated calls
\* visit the indices in order and pass index 0 once per length calls; it
\* never takes the stop or the empty-queue branch; the track at the new
\* index is started when the controller finds a source for it, and
\* otherwise the call fails as play() does, leaving the sounding track.
C4_NextCycles ==
  [][(NextCalled /\ ~isShuffle /\ repeatMode = "all" /\ Len(queue) > 0) =>
       /\ queueIndex' = (queueIndex + 1) % Len(queue)
       /\ queue' = queue
       /\ activePlaylist'.currentIndex = queueIndex'
       /\ IF HasSource(queue[queueIndex' + 1])
          THEN /\ op'.out = "started"
               /\ currentSong' = queue[queueIndex' + 1]
               /\ error' = NoError
               /\ ~audioPaused'
          ELSE /\ op'.out = "noSource"
               /\ error' = NoAudioUrl
               /\ currentSong' = currentSong
               /\ audioPaused' = audioPaused
               /\ isPlaying' = isPlaying]_vars

\* next() has wrapped from the last index of a longer queue to index 0.
C4_Witness ==
  /\ op = [name |-> "playNext", out |-> "started"]
  /\ repeatMode = "all" /\ ~isShuffle
  /\ Len(queue) > 1
  /\ queueIndex = 0
  /\ currentSong = queue[1]

PreviousCalled == op'.name = "playPrevious"

\* C6: previous() more than 3 s into the track sets the position to 0 and
\* leaves the cursor, the current track and the element's source and paused
\* state; at 3 s or less with shuffle off it moves the cursor of a non-empty
\* queue to index - 1, and from index 0 to the last index when repeatMode is
\* all and to 0 otherwise.
C6_Previous ==
  [][PreviousCalled =>
       IF audioTime > 3
       THEN /\ op'.out = "restarted"
            /\ audioTime' = 0
            /\ queueIndex' = queueIndex
            /\ currentSong' = currentSong
            /\ audioSrc' = audioSrc
            /\ audioPaused' = audioPaused
       ELSE (~isShuffle /\ Len(queue) > 0) =>
              queueIndex' = IF queueIndex > 0 THEN queueIndex - 1
                            ELSE IF repeatMode = "all" THEN Len(queue) - 1
                            ELSE 0]_vars

\* previous() has restarted a sounding track that is not the first.
C6_Witness ==
  /\ op = [name |-> "playPrevious", out |-> "restarted"]
  /\ queueIndex > 0
  /\ currentSong = queue[queueIndex + 1]
  /\ ~audioPaused
  /\ audioTime = 0

\* The 'ended' listener has run.
EndedHandled == op'.name = "handleEnded"

\* C7 as stated: when the current track ends naturally and repeatMode is
\* one, the same track is started again and the cursor does not move.
C7_RepeatOneReplays ==
  [][(EndedHandled /\ repeatMode = "one") =>
       /\ queueIndex' = queueIndex
       /\ currentSong' = currentSong
       /\ audioSrc' = audioSrc
       /\ ~audioPaused']_vars

\* C8 as stated: when the current track ends naturally the cursor moves as
\* next() resolves it under the shuffle and repeat settings of that moment;
\* with repeatMode all and shuffle off the end of the last track moves the
\* cursor to 0 and starts queue[0].
C8_EndedUsesCurrentModes ==
  [][(EndedHandled /\ Len(queue) > 0) =>
       /\ \/ queueIndex' \in NextIndices(Cur, repeatMode, isShuffle)
          \/ /\ Stop \in NextIndices(Cur, repeatMode, isShuffle)
             /\ queueIndex' = queueIndex
       /\ (/\ repeatMode = "all" /\ ~isShuffle
           /\ queueIndex = Len(queue) - 1
           /\ HasSource(queue[1])) =>
            (queueIndex' = 0 /\ currentSong' = queue[1] /\ ~audioPaused')]_vars

\* select() yields the empty decision for the track's candidates.
SelectYieldsEmpty(t) ==
  selectOptimalAudioSource(DownloadUrl(t)).selectedUrl = NoUrl

\* C9 as stated: play(track) on a track for whose candidates select() yields
\* the empty decision fails with the no-source error and changes none of
\* the current track, the current source decision, the media element and the
\* playing flag.
C9_NoPlayableSource ==
  microtasks = << >> =>
    \A t \in Tracks :
       SelectYieldsEmpty(t) =>
         LET r == SyncRefs(playSong(Cur, t, TRUE))
         IN /\ r.error = NoAudioUrl
            /\ r.currentSong = currentSong
            /\ r.currentAudioInfo = currentAudioInfo
            /\ r.audioSrc = audioSrc
            /\ r.audioPaused = audioPaused
            /\ r.audioTime = audioTime
            /\ r.playPromise.owner = playPromise.owner
            /\ r.isPlaying = isPlaying

\* The start of an earlier play() that a later play() call found pending is
\* settled: its continuation runs, or the element fulfils or rejects the
\* promise that is still pending.
SupersededSettles ==
  \/ microtasks # << >> /\ Head(microtasks).superseded # "no"
  \/ /\ microtasks = << >>
     /\ playPromise.owner # "none"
     /\ playPromise.superseded # "no"
     /\ playPromise'.owner = "none"
     /\ op'.name \in {"idle", "playRejected"}

\* C10 as stated: when play(B) was called while the start of play(A) was
\* pending, the later settlement of A's start changes none of the current
\* track, the media source, the playing flag and the last error.
C10_StaleSettlementIgnored ==
  [][SupersededSettles =>
       /\ currentSong' = currentSong
       /\ audioSrc' = audioSrc
       /\ isPlaying' = isPlaying
       /\ error' = error]_vars

\* The source the controller resolves for a track it can play.
SelectedUrl(t) ==
  IF DownloadUrl(t) # << >>
  THEN selectOptimalAudioSource(DownloadUrl(t)).selectedUrl
  ELSE Url(t)

\* The state after play(t) and, in the same task, play(t) again.
AfterPlayTwice(t) ==
  SyncRefs(playSong(SyncRefs(playSong(Cur, t, TRUE)), t, TRUE))

\* C11: play(t) called twice in immediate succession, for a track the
\* controller can play, leaves the one media element loaded with t's
\* selected url and not paused, one source decision (that of t) and one
\* pending start; the start of the first call is rejected with AbortError,
\* whose continuation changes nothing; but for that continuation the state
\* is the one a single play(t) leaves.
C11_PlayTwice ==
  microtasks = << >> =>
    \A t \in Tracks :
       HasSource(t) =>
         LET once == SyncRefs(playSong(Cur, t, TRUE))
             twice == AfterPlayTwice(t)
             aborted == twice.microtasks[Len(twice.microtasks)]
         IN /\ twice.currentSong = t
            /\ twice.audioSrc = SelectedUrl(t)
            /\ twice.currentAudioInfo.selectedUrl = SelectedUrl(t)
            /\ ~twice.audioPaused
            /\ twice.playPromise = [owner |-> "playSong", superseded |-> "no"]
            /\ twice.mediaEvents = << "play" >>
            /\ Len(twice.microtasks) = Len(once.microtasks) + 1
            /\ aborted.kind = "AbortError"
            /\ playRejected(twice, aborted).currentSong = t
            /\ playRejected(twice, aborted).audioSrc = twice.audioSrc
            /\ playRejected(twice, aborted).isPlaying = twice.isPlaying
            /\ playRejected(twice, aborted).error = twice.error
            /\ [twice EXCEPT !.microtasks = once.microtasks] = once

\* play() has been called again while the start of an earlier play() was
\* pending: the earlier start is aborted, the later one is pending.
C11_Witness ==
  /\ op = [name |-> "playSong", out |-> "started"]
  /\ Len(microtasks) = 1
  /\ microtasks[1].kind = "AbortError"
  /\ microtasks[1].owner = "playSong"
  /\ playPromise = [owner |-> "playSong", superseded |-> "no"]
  /\ audioSrc = SelectedUrl(currentSong)

\* C12: in a burst of togglePlayPause() calls, each arriving while the
\* timer of the previous one is pending (less than 150 ms after it), every
\* call sets the optimistic isPlaying flag at once and issues no platform
\* command; the timer of the previous call is cancelled, so one timer is
\* pending and one play/pause command follows the last call; that command
\* puts the handle in the state the last call's flag announced (the
\* opposite of the handle's state at that call), unless the platform
\* refuses to play.
C12_DebouncedToggle ==
  /\ [](Len(timers) <= 1)
  /\ [][/\ (op'.name = "togglePlayPause" /\ op'.out # "noSong") =>
            /\ isPlaying' = audioPaused
            /\ timers' = << [isCurrentlyPlaying |-> ~audioPaused,
                             held |-> TRUE] >>
            /\ audioPaused' = audioPaused
            /\ audioSrc' = audioSrc
            /\ playPromise' = playPromise
            /\ mediaEvents' = mediaEvents
            /\ microtasks' = microtasks
        /\ op'.name = "toggleTimeout" =>
            /\ timers' = << >>
            /\ op'.out = "pause" =>
                 Head(timers).isCurrentlyPlaying /\ audioPaused'
            /\ op'.out = "play" =>
                 ~Head(timers).isCurrentlyPlaying /\ ~audioPaused'
            /\ op'.out \in {"refused", "noSource"} =>
                 ~Head(timers).isCurrentlyPlaying /\ audioPaused']_vars

\* A click arrived while the timer of the previous click was pending: the
\* flag is set, one timer is pending, nothing was asked of the element.
C12_Witness ==
  /\ op = [name |-> "togglePlayPause", out |-> "rearmed"]
  /\ Len(timers) = 1
  /\ isPlaying = audioPaused

\* The state after togglePlayPause() is called with the given value in the
\* cached flag, and the state after its timer has fired with the platform
\* willing to play.
Clicked(cached) == SyncRefs(togglePlayPause([Cur EXCEPT !.isPlaying = cached]))

Fired(cached) == toggleTimeout(Clicked(cached), TRUE)

\* C13: with a current track, for either value of the cached isPlaying flag
\* togglePlayPause() decides by the handle: a handle that is not paused is
\* paused and a paused handle is asked to play, also when an earlier play()
\* promise is still pending, which the pause then aborts.
C13_ToggleReadsHandle ==
  (microtasks = << >> /\ currentSong # NoSong) =>
    \A cached \in BOOLEAN :
      /\ Clicked(cached).timers =
           << [isCurrentlyPlaying |-> ~audioPaused, held |-> TRUE] >>
      /\ Clicked(cached).isPlaying = audioPaused
      /\ Fired(cached).audioPaused = ~audioPaused
      /\ Fired(cached).op.out = IF audioPaused THEN "play" ELSE "pause"
      /\ playPromise.owner # "none" =>
           /\ ~audioPaused
           /\ Fired(cached).playPromise = NoPromise
           /\ Fired(cached).microtasks =
                << Settled(playPromise, "AbortError") >>

\* The timer of a click has paused the handle while the play() promise of
\* playSong was pending and the cached flag was still lowered.
C13_Witness ==
  /\ op = [name |-> "toggleTimeout", out |-> "pause"]
  /\ audioPaused
  /\ Len(microtasks) = 1
  /\ microtasks[1].kind = "AbortError"
  /\ microtasks[1].owner = "playSong"

\* Nothing is pending: no debounce timer, no play() promise, no continuation
\* and no media event waiting for dispatch.
AllSettled ==
  /\ timers = << >>
  /\ playPromise.owner = "none"
  /\ microtasks = << >>
  /\ mediaEvents = << >>

\* C14: once all pending debounce timers and play() promises have settled,
\* isPlaying equals the handle's actual playing state; in particular a
\* failed operation never leaves isPlaying true while the handle is paused.
C14_FlagFollowsHandle == AllSettled => (isPlaying = AudioPlaying(Cur))

\* The failures C15 names: the rejections of play() other than the abort,
\* from either caller, and the media errors other than the abort.
PlayFailures ==
  [kind : {"NotAllowedError", "NotSupportedError", "NetworkError"},
   owner : {"playSong", "toggle"}, superseded : {"no"}]

MediaFailures == MediaErrorCodes \ {"MEDIA_ERR_ABORTED"}

\* The handler has reported the failure and done nothing else: apart from
\* the message and the lowered flag the state r is the state s.
OnlyReported(r, s) ==
  /\ r.error # NoError
  /\ ~r.isPlaying
  /\ [r EXCEPT !.error = s.error, !.isPlaying = s.isPlaying, !.op = s.op] = s

\* C15: a rejection of play() other than the abort (not allowed, format not
\* supported, network) and a network, decode or unsupported-source media
\* error leave lastError populated and isPlaying false, and the handler
\* does nothing else: no new play() is asked of the element, no other
\* track is loaded and the cursor does not move.
C15_FailureReported ==
  /\ [](/\ \A task \in PlayFailures : OnlyReported(playRejected(Cur, task), Cur)
        /\ \A code \in MediaFailures : OnlyReported(handleError(Cur, code), Cur))
  /\ [][((op'.name = "playRejected" /\ op'.out \in {f.kind : f \in PlayFailures})
          \/ (op'.name = "handleError" /\ op'.out \in MediaFailures)) =>
            /\ error' # NoError
            /\ ~isPlaying'
            /\ playPromise'.owner = "none"
            /\ microtasks' = IF op'.name = "playRejected" /\ microtasks # << >>
                             THEN Tail(microtasks) ELSE microtasks
            /\ mediaEvents' = mediaEvents
            /\ timers' = timers
            /\ audioPaused' = audioPaused
            /\ audioSrc' = audioSrc
            /\ currentSong' = currentSong
            /\ queueIndex' = queueIndex]_vars

\* A network error has interrupted a playing track.
C15_Witness ==
  /\ op = [name |-> "handleError", out |-> "MEDIA_ERR_NETWORK"]
  /\ error = "Network error loading audio"
  /\ ~isPlaying
  /\ audioError
  /\ currentSong # NoSong

\* The calls C16 is about: a list that is empty or holds no track with both
\* id and name, with any index.
FruitlessCalls ==
  {c \in TrackLists \X (-1 .. MaxLen) : FilterValid(c[1]) = << >>}

C17_SeekTo ==
  (microtasks = << >> /\ currentSong # NoSong) =>
    \A time \in SeekTimes :
      LET r == SyncRefs(seekTo(Cur, time))
      IN IF time.kind = "finite" /\ 0 <= time.value /\ time.value <= EndOfTrack
         THEN r.audioTime = time.value
         ELSE [r EXCEPT !.op = op] = Cur

\* The candidates the selector retains, graded as it grades them.
Retained(cands) == FilterLinks(cands)

Rank(q) == [tier |-> qualityPriority(q.quality), bitrate |-> q.bitrate]

\* a is strictly better than b: higher tier, or the same tier and a higher
\* bitrate.
Better(a, b) ==
  \/ Rank(a).tier > Rank(b).tier
  \/ Rank(a).tier = Rank(b).tier /\ Rank(a).bitrate > Rank(b).bitrate

SameElements(a, b) ==
  /\ Len(a) = Len(b)
  /\ \A x \in {a[i] : i \in 1 .. Len(a)} :
       Cardinality({i \in 1 .. Len(a) : a[i] = x})
         = Cardinality({i \in 1 .. Len(b) : b[i] = x})

TestSample ==
  << [quality |-> Kbps96, link |-> 11], [quality |-> Kbps160, link |-> 13],
     [quality |-> Kbps320, link |-> 12] >>

\* C18: for every candidate list with at least one non-blank link the
\* selector returns the url of a candidate that no retained candidate beats
\* in (tier, bitrate), with that candidate's tier; the retained list holds
\* the candidates with a non-blank link, sorted so that no later one beats
\* an earlier one; for the tags 96kbps, 160kbps, 320kbps it returns the
\* 320kbps link with tier high.
C18_SelectsBest ==
  (result # << >> /\ Retained(sampleDownloadUrls) # << >>) =>
    LET info == result[1]
        graded == Retained(sampleDownloadUrls)
        retained == info.availableQualities
    IN /\ \E i \in 1 .. Len(graded) :
            /\ info.selectedUrl = graded[i].url
            /\ info.detectedQuality = graded[i].quality
            /\ \A j \in 1 .. Len(graded) : ~Better(graded[j], graded[i])
       /\ info.selectedUrl # NoUrl
       /\ SameElements(retained, graded)
       /\ \A i, j \in 1 .. Len(retained) :
            i < j => ~Better(retained[j], retained[i])
       /\ sampleDownloadUrls = TestSample =>
            info.selectedUrl = 12 /\ info.detectedQuality = "high"

\* The selector has answered for a list in which a 256 kbit/s candidate
\* comes before a 320 kbit/s one and a blank link is dropped.
C18_Witness ==
  /\ result # << >>
  /\ Len(sampleDownloadUrls) = 3
  /\ sampleDownloadUrls[1] = [quality |-> Kbps256, link |-> 11]
  /\ sampleDownloadUrls[2] = [quality |-> Kbps320, link |-> 13]
  /\ sampleDownloadUrls[3].link = NoUrl
  /\ result[1].selectedUrl = 13
  /\ Len(result[1].availableQualities) = 2

\* A call of initializeProcessing has returned without attaching.
AttachFailed ==
  op.name = "initializeProcessing" /\ op.out \in {"false", "alreadyConnected"}

\* The processor holds nothing: no context, no node, not initialized.
Uninitialized(p) == p = NewProcessor(p.config)

\* C19: initializeProcessing never throws; an attach that fails, because the
\* handle is attached already or for any other reason, returns a failed
\* result and leaves the processor uninitialized, with no context and no
\* node of a half-built graph.
C19_FailedAttachLeavesNothing == AttachFailed => Uninitialized(processor)

\* The nodes the signal of the source node reaches.
RECURSIVE ReachableFrom(_, _)
ReachableFrom(nodes, edges) ==
  LET next == nodes \cup {e[2] : e \in {x \in edges : x[1] \in nodes}}
  IN IF next = nodes THEN nodes ELSE ReachableFrom(next, edges)

\* The media element is heard: nothing has captured it, or the graph that
\* has captured it runs and leads from its source node to the destination.
SignalReachesSink ==
  \/ webAudio.foreign
  \/ webAudio.captured = NoContext
  \/ /\ webAudio.contexts[webAudio.captured] = "running"
     /\ "destination" \in ReachableFrom({"source"}, webAudio.edges)

\* C20: after an attach on a handle that already feeds a graph has been
\* refused, the handle's signal still reaches the output sink, through the
\* existing graph or directly.
C20_PlaybackSurvivesSecondAttach ==
  (op = [name |-> "initializeProcessing", out |-> "alreadyConnected"]
     /\ awaiting = << >>)
    => SignalReachesSink

\* The processor is attached: initialized, holding its source node and the
\* context in which that node captured the media element.
Attached ==
  /\ processor.isInitialized
  /\ processor.sourceNode
  /\ processor.audioContext # NoContext
  /\ webAudio.captured = processor.audioContext

\* The connections construction makes for the processor's configuration.
AsConstructed ==
  connectProcessingChain([World EXCEPT !.webAudio.edges = {}]).webAudio.edges

\* The connections lead from the source node to the destination.
PathToSink(edges) == "destination" \in ReachableFrom({"source"}, edges)

\* The source node feeds the destination and nothing else.
Bypassed(edges) ==
  {e \in edges : e[1] = "source"} = {<< "source", "destination" >>}

\* C21: on an attached graph, setBypass(true) followed by setBypass(false)
\* leaves exactly the connections construction made, through the full
\* processing chain, and after every setBypass call the connections lead
\* from the handle's source node to the output sink.
C21_BypassReversible ==
  /\ [](Attached =>
          LET bypassed == setBypass(World, TRUE)
              restored == setBypass(bypassed, FALSE)
          IN /\ Bypassed(bypassed.webAudio.edges)
             /\ restored.webAudio.edges = AsConstructed
             /\ restored.processor = processor
             /\ PathToSink(webAudio.edges))
  /\ [][(op'.name = "setBypass" /\ Attached)
          => /\ PathToSink(webAudio'.edges)
             /\ processor' = processor
             /\ (Bypassed(webAudio.edges) /\ ~Bypassed(webAudio'.edges)
                   => webAudio'.edges = AsConstructed)]_vars

\* setBypass(false) has just restored the full chain, equalizer and limiter
\* included, on an attached graph.
C21_Witness ==
  /\ op.name = "setBypass"
  /\ Attached
  /\ processor.config = DefaultConfig
  /\ ~Bypassed(webAudio.edges)
  /\ webAudio.edges = AsConstructed
  /\ << "limiter", "gain" >> \in webAudio.edges

\* What dispose() leaves of a processor and platform: no node reference, no
\* context reference, not initialized, the context the processor held
\* closed, the outputs of the nodes it held disconnected, and nothing for a
\* further dispose() to change.
Disposed(before, after) ==
  /\ Uninitialized(after.processor)
  /\ HeldNodes(after.processor) = {}
  /\ ~after.processor.isInitialized
  /\ after.processor.config = before.processor.config
  /\ before.processor.audioContext # NoContext
       => after.webAudio.contexts[before.processor.audioContext] = "closed"
  /\ \A e \in after.webAudio.edges : e[1] \notin HeldNodes(before.processor)
  /\ dispose(after) = after

\* C22: dispose() completes in every state of the processor, attached, never
\* attached or partially constructed; after it every node reference is
\* released, the context the processor held is closed and the processor is
\* not initialized, and a second dispose() changes nothing.
C22_DisposeReleasesAll ==
  /\ [](Disposed(World, dispose(World)))
  /\ [][op'.name = "dispose" =>
          /\ Disposed(World, World')
          /\ awaiting' = awaiting]_vars

\* dispose() has run on a processor that held a context and no node, the
\* call that created the context still waiting for resume().
C22_Witness ==
  /\ op.name = "dispose"
  /\ Uninitialized(processor)
  /\ awaiting = << 1 >>
  /\ webAudio.contexts = << "closed" >>

\* The endpoint has a record whose window has not been reset: the reset
\* happens on the first call after resetTime.
InsideWindow(endpoint) ==
  Has(limits, endpoint) /\ ~(now > limits[endpoint].resetTime)

\* The calls counted in the endpoint's window have reached the cap.
CapReached(endpoint) ==
  Has(limits, endpoint)
    /\ limits[endpoint].callCount >= MAX_CALLS_PER_MINUTE

C24_FailureForcesDelay ==
  \A endpoint \in Endpoints :
    \A t \in now .. now + RESET_INTERVAL * 2 - 1 :
      shouldDelay(recordFailure(limits, endpoint, RateLimitStatus, now),
                  endpoint, t).delay > 0

AsDescribed(l, endpoint, t, after, delay) ==
  IF ~Has(l, endpoint)
  THEN delay = 0 /\ after[endpoint].callCount = 1
  ELSE IF t > l[endpoint].resetTime
  THEN /\ delay = 0
       /\ after[endpoint].callCount = 1
       /\ after[endpoint].resetTime = t + RESET_INTERVAL
  ELSE IF l[endpoint].callCount >= MAX_CALLS_PER_MINUTE
  THEN delay = l[endpoint].resetTime - t
  ELSE /\ delay = Max(0, DEFAULT_DELAY - (t - l[endpoint].lastCall))
       /\ delay = 0 <=> t - l[endpoint].lastCall >= DEFAULT_DELAY
       /\ after[endpoint].callCount = l[endpoint].callCount + 1

\* C29: shouldDelay(endpoint) returns 0 on the first call for an endpoint
\* and on the first call after the window has expired, restarting the
\* counter at 1; inside the window it returns the remaining window time if
\* the counter has reached the cap, and otherwise max(0, minimum spacing -
\* time since the previous call), which is 0 exactly when at least the
\* minimum spacing has elapsed.
C29_ShouldDelayValue ==
  \A endpoint \in Endpoints :
    AsDescribed(limits, endpoint, now,
                shouldDelay(limits, endpoint, now).limits,
                shouldDelay(limits, endpoint, now).delay)

\* shouldDelay has just returned a shortfall against the minimum spacing:
\* positive, below DEFAULT_DELAY, for a call it counted.
C29_Witness ==
  \E endpoint \in Endpoints :
    /\ op.name = "shouldDelay"
    /\ op.out.delay > 0
    /\ op.out.delay < DEFAULT_DELAY
    /\ limits[endpoint].lastCall = now
    /\ limits[endpoint].callCount > 1

\* C30: in any interval of one window length, wherever it starts relative to
\* the endpoint's reset timestamps, at most MAX_CALLS_PER_MINUTE calls of
\* shouldDelay for one endpoint return 0.  The interval is the one that ends
\* now.
C30_AtMostCapPerWindow ==
  \A endpoint \in DOMAIN admitted :
    Len(Recent(admitted[endpoint], now)) <= MAX_CALLS_PER_MINUTE

\* The call has failed after apiCall was invoked maxRetries + 1 times and
\* failed every time with the rate-limit status (only such a failure is
\* followed by another attempt).
AllAttemptsRateLimited(call) ==
  /\ call.pc = "threw"
  /\ call.invoked = call.maxRetries + 1
  /\ call.invoked > 0 => call.settled.status = RateLimitStatus

\* C25: when every attempt of makeRateLimitedCall, the first call plus
\* maxRetries retries, fails with the rate-limit status, the call fails with
\* a condition of its own that names the endpoint, not with apiCall's error.
C25_RetriesExhausted ==
  \A i \in 1 .. Len(calls) :
    AllAttemptsRateLimited(calls[i])
      => calls[i].settled.error = "Failed to complete"

\* The call has returned or thrown.
CallSettled(call) == call.pc \in {"returned", "threw"}

C27_OtherFailureRethrown ==
  [][\A i \in 1 .. Len(calls) :
       (op'.name = "apiCallRejected" /\ op'.out.call = i
          /\ op'.out.out # RateLimitStatus)
         => /\ calls'[i].pc = "threw"
            /\ calls'[i].settled
                 = [kind |-> "threw", error |-> "apiCall",
                    attempt |-> calls[i].attempt, status |-> op'.out.out]
            /\ calls'[i].invoked = calls[i].invoked
            /\ calls[i].attempt = 0 => calls'[i].invoked = 1
            /\ calls'[i].timeout = calls[i].timeout
            /\ limits' = limits]_vars

\* apiCall has just failed with a response status other than the rate-limit
\* one, on the first attempt, and the call has rethrown.
C27_Witness ==
  \E i \in 1 .. Len(calls) :
    /\ op.name = "apiCallRejected"
    /\ op.out = [call |-> i, out |-> OtherStatus]
    /\ calls[i].pc = "threw"
    /\ calls[i].invoked = 1
    /\ calls[i].maxRetries > 0

NoTwoAlike(list) ==
  \A i, j \in 1 .. Len(list) : i # j => list[i] # list[j]

Position(list, id) == CHOOSE i \in 1 .. Len(list) : list[i] = id

\* The entries are tracks that were played, the more recently played one
\* first.
MostRecentFirst(list) ==
  /\ \A i \in 1 .. Len(list) : \E k \in 1 .. Len(played) : played[k] = list[i]
  /\ \A i, j \in 1 .. Len(list) :
       i < j => Position(played, list[i]) < Position(played, list[j])

\* C28: after any sequence of plays, the persisted recently played list is
\* ordered most-recent-first with the current track at its head, holds no
\* two entries with the same track id, and is no longer than its cap.
C28_RecentlyPlayed ==
  currentSong # NoSong
    => /\ localStorage # << >>
       /\ localStorage[1] = currentSong
       /\ MostRecentFirst(localStorage)
       /\ NoTwoAlike(localStorage)
       /\ Len(localStorage) <= MaxRecentlyPlayed

Calls == 1 .. Len(calls)

\* The call has invoked the wrapped function after shouldDelay answered it
\* with the endpoint under its cap.
InvokedUnderCap(call) == call.invoked > 0 /\ ~call.capped

\* C31: when several calls of makeRateLimitedCall for the same endpoint are
\* in flight at once and the endpoint is under its cap, the invocations of
\* the wrapped function start at least DEFAULT_DELAY apart: at the instant
\* one call invokes it, the latest invocation by any other call of the
\* endpoint is DEFAULT_DELAY or more in the past.
C31_InvocationsSpaced ==
  \A i \in Calls : \A j \in Calls \ {i} :
    (/\ calls[i].endpoint = calls[j].endpoint
     /\ InvokedUnderCap(calls[i])
     /\ InvokedUnderCap(calls[j])
     /\ calls[i].sinceInvoked = 0)
      => calls[j].sinceInvoked >= DEFAULT_DELAY

\* next() is called with shuffle on under an active playlist that carries a
\* language tag, its cursor on one of its tracks.
ShuffledNextOnTagged ==
  /\ NextCalled
  /\ isShuffle
  /\ activePlaylist.present
  /\ activePlaylist.language # ""
  /\ activePlaylist.currentIndex \in 0 .. Len(activePlaylist.tracks) - 1

\* The tracks of the active playlist that share the language of the track
\* at its cursor.
SameLanguagePool ==
  SameLanguageSongs(activePlaylist.tracks,
                    Language(activePlaylist.tracks[activePlaylist.currentIndex + 1]))

\* C32: with shuffle on, an active playlist carrying a language tag and more
\* than one track in the same-language pool, next() moves the cursor to a
\* track whose language equals the current track's language and whose index
\* differs from the current index.
C32_ShuffleKeepsLanguage ==
  [][(ShuffledNextOnTagged /\ Cardinality(SameLanguagePool) > 1) =>
       /\ activePlaylist'.currentIndex \in SameLanguagePool
       /\ activePlaylist'.currentIndex # activePlaylist.currentIndex
       /\ queueIndex' = activePlaylist'.currentIndex]_vars

\* The tracks of the active playlist in the language of its tag.
TaggedPool ==
  SameLanguageSongs(activePlaylist.tracks, activePlaylist.language)

\* C33: with shuffle on and a language-tagged active playlist whose
\* same-language pool has exactly one member (the current track is the only
\* one in the language of the tag, which is its own), next() behaves as
\* sequential advance: the cursor goes to
\* cursor + 1, and from the last index it goes to 0 only if repeatMode is
\* all and otherwise playback stops and the cursor stays.
C33_SingleMemberPoolIsSequential ==
  [][(/\ ShuffledNextOnTagged
      /\ TaggedPool = {activePlaylist.currentIndex}
      /\ SameLanguagePool = TaggedPool) =>
       IF activePlaylist.currentIndex + 1 < Len(activePlaylist.tracks)
       THEN activePlaylist'.currentIndex = activePlaylist.currentIndex + 1
       ELSE IF repeatMode = "all"
            THEN activePlaylist'.currentIndex = 0
            ELSE /\ op'.out = "stopped"
                 /\ ~isPlaying'
                 /\ audioPaused'
                 /\ activePlaylist'.currentIndex = activePlaylist.currentIndex
                 /\ queueIndex' = queueIndex]_vars

\* The grade C34 describes for a candidate: the one of its tag when the tag
\* can be parsed, and otherwise the one the same markers give on the url.
GradeAsDescribed(item) ==
  IF DetectFromTag(toLowerCase(item.quality)).quality # "unknown"
  THEN DetectFromTag(toLowerCase(item.quality))
  ELSE DetectFromTag(toLowerCase(UrlText(item.link)))

QualitiesAsDescribed(cands) ==
  LET usable == SelectSeq(cands, LAMBDA c : c.link # NoUrl)
  IN [i \in 1 .. Len(usable) |->
        Graded(usable[i].link, GradeAsDescribed(usable[i]),
               DetectFormat(UrlText(usable[i].link)))]

\* C34: a candidate whose quality tag cannot be parsed is classified from
\* its url by the markers recognised in tags (320, 256, 160, 128, 96, 64),
\* with the tier and bitrate the equivalent tag would give; a tag that can
\* be parsed takes precedence over the url: the qualities the selector
\* returns are those so described.
C34_UrlFallbackUsesTagMarkers ==
  result # << >> =>
    SameElements(result[1].availableQualities,
                 QualitiesAsDescribed(sampleDownloadUrls))

\* A runtime change of the gains: a step of setGain or of updateEQ.
GainChanged == op'.name \in {"setGain", "updateEQ"}

\* C35: every runtime change to a gain parameter of the processing graph
\* (the master gain through setGain, the band gains through updateEQ) is
\* applied as a smoothed change, never as a write of the value: a
\* parameter such a call leaves different was set by a scheduled change.
C35_GainChangesSmoothed ==
  [][GainChanged =>
       \A param \in DOMAIN processor'.params :
         processor'.params[param] # processor.params[param]
           => processor'.params[param].smoothed]_vars

\* C36: after any sequence of setPlaylistAndPlay, next() and previous()
\* calls on a non-empty queue, the current track is the track at the cursor
\* of the queue, also when next() or previous() has landed on a track that
\* has no playable source.
C36_CurrentIsAtCursor ==
  Len(queue) > 0 =>
    /\ queueIndex \in 0 .. Len(queue) - 1
    /\ currentSong = queue[queueIndex + 1]

\* The calls C37 is about: a list and an index that designates a
\* structurally valid track of it.
DesignatingCalls ==
  {c \in Selections \X (0 .. Cardinality(Tracks) - 1) :
     InRange(c[2], c[1]) /\ HasIdAndName(c[1][c[2] + 1])}

\* C37: setPlaylistAndPlay(tracks, index) plays the track the caller
\* designated: whenever tracks[index] is structurally valid, the current
\* track after the call is tracks[index] and the committed cursor points at
\* that same track, even when invalid tracks earlier in the list were
\* filtered out.
C37_PlaysDesignatedTrack ==
  microtasks = << >> =>
    \A c \in DesignatingCalls :
      /\ AfterSetQueueAndPlay(c).currentSong = c[1][c[2] + 1]
      /\ AfterSetQueueAndPlay(c).queue[AfterSetQueueAndPlay(c).queueIndex + 1]
           = c[1][c[2] + 1]

\* The step is a call that reached playSong with a track: play(track)
\* itself, or setPlaylistAndPlay, next or previous passing their track on.
PlayRequested ==
  /\ op'.name \in {"playSong", "setPlaylistAndPlay", "playNext", "playPrevious"}
  /\ op'.out \in {"started", "refused", "noSource"}

\* C38: a debounced toggle that is still pending when play(track) is called
\* (directly or through next, previous or setPlaylistAndPlay) never fires:
\* the call leaves no timer behind and no handle on one, so that a timer
\* that fires afterwards was armed by a click made after the call, and it
\* applies what that click decided.
C38_PlayCancelsPendingToggle ==
  /\ [][PlayRequested =>
          /\ timers' = << >>
          /\ playPauseTimeoutRef' = NoTimer]_vars
  /\ [][op'.name = "toggleTimeout" =>
          /\ timers # << >>
          /\ Head(timers).held
          /\ playPauseTimeoutRef # NoTimer]_vars

\* play(track) has started another track over a click on the sounding one:
\* the flag is as the click lowered it, the timer of the click is gone and
\* the element has been asked to play the new track.
C38_Witness ==
  /\ op = [name |-> "playSong", out |-> "started"]
  /\ timers = << >>
  /\ playPauseTimeoutRef = NoTimer
  /\ ~isPlaying
  /\ ~audioPaused
  /\ playPromise.owner = "playSong"
  /\ mediaEvents = << "play" >>
  /\ microtasks = << >>
  /\ currentSong # NoSong

\* The step is one of the three calls that write the cursors.
CursorCall == op'.name \in {"setPlaylistAndPlay", "playNext", "playPrevious"}

\* The index after cursor in a list of n tracks, and the one before it.
SequentialNext(cursor, n) == IF cursor + 1 >= n THEN 0 ELSE cursor + 1

SequentialPrevious(cursor, n) ==
  IF cursor - 1 < 0 THEN (IF repeatMode = "all" THEN n - 1 ELSE 0)
  ELSE cursor - 1

C40_NoContextLeaked ==
  (op.name = "dispose" /\ awaiting = << >>)
    => \A context \in DOMAIN webAudio.contexts :
         webAudio.contexts[context] = "closed"

====
